---- MODULE Spec2Model ----
(***************************************************************************)
(* A model of src/index.ts: operations over asynchronous sequences.        *)
(*                                                                         *)
(* One behaviour runs a short plan of operations, one after the other, on  *)
(* the same inputs (fresh cursors each time).  Every await of the source   *)
(* is one step: a pull on a source, an invocation of a user callback, a    *)
(* yield.  A lazy sequence (an async generator) is driven by a consumer    *)
(* that is toArray's loop; a terminal operation runs on its own.           *)
(***************************************************************************)
EXTENDS Integers, Sequences, FiniteSets, TLC

\* ------------------------------------------------------------- bounds

\* longest source sequence
MaxLen == 3
\* pulls a consumer makes on a lazy sequence after it signalled exhaustion
MaxExtra == 2

\* the elements of the source sequences
Values == {1, 2, 3}
\* the elements of the sources of an operation that reads two
PairValues == {1, 2}
\* the initial accumulators
Initials == {0, 5}

SeqsOver(V) == UNION {[1..k -> V] : k \in 0..MaxLen}
Seqs == SeqsOver(Values)

\* longest sequence of sequences
MaxOuter == 3
\* the sequences of k sequences that hold m elements or fewer in all
RECURSIVE NestedOf(_, _)
NestedOf(k, m) ==
    IF k = 0 THEN {<<>>}
    ELSE UNION {{<<s>> \o r : r \in NestedOf(k - 1, m - Len(s))} :
                   s \in {t \in SeqsOver(PairValues) : Len(t) <= m}}
\* the sequences of sequences concat is run on
NestedSeqs == UNION {NestedOf(k, MaxLen) : k \in 0..MaxOuter}

\* ------------------------------------------------------ JS numbers

\* A number argument: finite (a multiple of 1/2, kept doubled), NaN, or an
\* infinity.
Fin(t) == [kind |-> "fin", twice |-> t]
Num(k) == Fin(2 * k)
NaN == [kind |-> "nan", twice |-> 0]
PosInfinity == [kind |-> "inf", twice |-> 0]
NegInfinity == [kind |-> "ninf", twice |-> 0]

\* x < y
Less(x, y) ==
    CASE x.kind = "nan" \/ y.kind = "nan" -> FALSE
      [] x.kind = "inf" -> FALSE
      [] x.kind = "ninf" -> y.kind # "ninf"
      [] y.kind = "inf" -> TRUE
      [] y.kind = "ninf" -> FALSE
      [] OTHER -> x.twice < y.twice

\* x === y
StrictEq(x, y) == x.kind # "nan" /\ y.kind # "nan" /\ x = y

\* x >= y
GreaterEq(x, y) == x.kind # "nan" /\ y.kind # "nan" /\ ~Less(x, y)

isFinite(x) == x.kind = "fin"

floor(x) == IF x.kind = "fin" THEN Fin(x.twice - (x.twice % 2)) ELSE x

IsCount(x) == x.kind = "fin" /\ x.twice % 2 = 0 /\ x.twice >= 0

\* the number arguments tried: -1 .. MaxLen+1, -1/2, 3/2, NaN, the infinities
Numbers ==
    {Num(k) : k \in -1..(MaxLen + 1)} \cup {Fin(-1), Fin(3), NaN, PosInfinity, NegInfinity}

\* ---------------------------------------------------------- values

\* null, distinct from every element
null == -1

Pending == [state |-> "pending"]
Fulfilled(v) == [state |-> "fulfilled", value |-> v]
Rejected(e) == [state |-> "rejected", error |-> e]

\* a local that has not been assigned yet
Unset == [unset |-> TRUE]

Min(x, y) == IF x < y THEN x ELSE y
Max(x, y) == IF x > y THEN x ELSE y

\* ------------------------------------------------------------ state

VARIABLES
    plan,   \* the operations run, in order, each on the same inputs
    run,    \* the index in plan of the operation running
    hist,   \* the outcome of every completed run
    arg,    \* the inputs: contents of the sources, count, callback, failures
    ait,    \* the cursor on the (first) source
    bit,    \* the cursor on the second source
    pc,     \* the position in the running operation's body
    gen,    \* the state of the generator object of a lazy sequence
    loc,    \* the running operation's local variables
    out,    \* the elements the lazy sequence has yielded to its consumer
    ret,    \* the promise of the terminal operation (toArray for a lazy one)
    calls,  \* every invocation of the user callback, with its arguments
    extra   \* pulls made on the lazy sequence after it completed

vars == <<plan, run, hist, arg, ait, bit, pc, gen, loc, out, ret, calls, extra>>

Step(o) == [op |-> o, swap |-> FALSE]

Op == plan[run].op

LazyOps ==
    {"asyncIterable", "take", "drop", "map", "filter", "takeWhile", "scan",
     "exclude", "remove", "takeUntil", "dropWhile", "dropUntil", "initial", "tail",
     "excludeFirst", "removeFirst", "concat", "prepend", "append", "push", "unshift",
     "scan1", "excludeFn"}

\* the function whose body an operation runs: a wrapper runs the body of the
\* function it returns a call of
Body(o) ==
    CASE o \in {"exclude", "remove", "excludeFn"} -> "filter"
      [] o = "takeUntil" -> "takeWhile"
      [] o = "dropUntil" -> "dropWhile"
      [] o = "removeFirst" -> "excludeFirst"
      [] o \in {"prepend", "append"} -> "concat"
      [] o \in {"and", "or", "any", "all"} -> "findIndex"
      [] o = "notEmpty" -> "empty"
      [] OTHER -> o

IsLazy(o) == o \in LazyOps

\* ---------------------------------------------------------- cursors

Cursor(items, failAt) ==
    [items |-> items, pos |-> 0, closed |-> FALSE,
     pulls |-> 0, srcPulls |-> 0, returns |-> 0, failAt |-> failAt]

\* the pull about to be made on the source fails / finds it exhausted
SourceFails(c) == c.failAt = c.srcPulls + 1
SourceDone(c) == ~SourceFails(c) /\ c.pos >= Len(c.items)

\* for await (const element of await iterable): the pull of one iteration
forAwaitThrows(c) == SourceFails(c)
forAwaitResult(c) ==
    IF SourceDone(c) THEN [done |-> TRUE]
    ELSE [done |-> FALSE, value |-> c.items[c.pos + 1]]
forAwaitNext(c) ==
    [c EXCEPT !.pulls = @ + 1,
              !.srcPulls = @ + 1,
              !.pos = IF SourceFails(c) \/ SourceDone(c) THEN @ ELSE @ + 1,
              !.closed = SourceFails(c) \/ SourceDone(c)]

\* leaving a for await loop before the source is exhausted (return, break
\* or throw in its body) closes the source's iterator
forAwaitClose(c) == [c EXCEPT !.returns = @ + 1, !.closed = TRUE]

\* iterator.next() on asyncIterator(iterable): the generator asyncIterable
\* wraps the source; once it has completed, a pull does not reach the source
iteratorThrows(c) == ~c.closed /\ forAwaitThrows(c)
iteratorResult(c) == IF c.closed THEN [done |-> TRUE] ELSE forAwaitResult(c)
iteratorNext(c) == IF c.closed THEN [c EXCEPT !.pulls = @ + 1] ELSE forAwaitNext(c)

\* ------------------------------------------------- running an operation

Locals ==
    [c |-> Unset, i |-> 0, element |-> Unset, result |-> Unset, first |-> Unset,
     ar |-> Unset, br |-> Unset, accumulator |-> Unset, max |-> Unset,
     maxBy |-> Unset, value |-> Unset, prev |-> Unset]

\* prepend(a)(b) is concat([a, b]); append(b)(a) is concat([a, b])
prepend_sources(x, y) == <<x, y>>
\* append putting its own argument first
append_sources_first(x, y) == <<x, y>>
append_sources(x, y) == <<y, x>>

\* what the first cursor of an operation invoked with a and b runs over: the
\* source, or for concat the sequence of the inner sequences
FirstSource(o, a, b, nested) ==
    CASE o = "concat" -> nested
      [] o = "prepend" -> prepend_sources(a, b)
      [] o = "append" -> append_sources(a, b)
      [] OTHER -> a
\* and the second: a source, or for concat the inner sequence iterated (none
\* yet)
SecondSource(o, b) == IF Body(o) = "concat" THEN <<>> ELSE b

\* the state in which an operation is invoked on sources a and b
Invoke(o, a, b) ==
    /\ ait' = Cursor(FirstSource(o, a, b, arg.nested), arg.failPull)
    /\ bit' = Cursor(SecondSource(o, b), 0)
    /\ pc' = "start"
    /\ gen' = IF IsLazy(o) THEN "suspendedStart" ELSE "none"
    /\ loc' = Locals
    /\ out' = <<>>
    /\ ret' = Pending
    /\ calls' = <<>>
    /\ extra' = 0

Outcome == [op |-> Op, ret |-> ret, out |-> out, calls |-> calls, ait |-> ait, bit |-> bit]

\* the operation has settled: the next one of the plan is invoked
NextRun ==
    /\ ret # Pending
    /\ run < Len(plan)
    /\ run' = run + 1
    /\ hist' = Append(hist, Outcome)
    /\ IF plan[run + 1].swap
       THEN Invoke(plan[run + 1].op, arg.b, arg.a)
       ELSE Invoke(plan[run + 1].op, arg.a, arg.b)
    /\ UNCHANGED <<plan, arg>>

\* what a step of a generator body does to the generator and its consumer
Yield(v) == gen' = "suspendedYield" /\ out' = Append(out, v) /\ ret' = ret
ReturnGen == gen' = "completed" /\ out' = out /\ ret' = Fulfilled(out)
ThrowGen(e) == gen' = "completed" /\ out' = out /\ ret' = Rejected(e)
Continue == UNCHANGED <<gen, out, ret>>

\* what a step of a terminal operation does to its promise
Return(v) == ret' = Fulfilled(v) /\ UNCHANGED <<gen, out>>
Throw(e) == ret' = Rejected(e) /\ UNCHANGED <<gen, out>>

Frame == UNCHANGED <<plan, run, hist, arg>>

\* ------------------------------------------------------ user callbacks

\* the invocation about to be made of the user callback fails
CallThrows == arg.failCall = Len(calls) + 1

\* elementsEqual(a, b)
EqualFns == {"defaultEqual", "lessOrEqual"}
elementsEqual(x, y) ==
    CASE arg.fn = "defaultEqual" -> x = y
      [] arg.fn = "lessOrEqual" -> x <= y

\* f(accumulator, element, index)
FoldFns == {"weighted", "horner"}
f3(a, e, i) ==
    CASE arg.fn = "weighted" -> a + e * i
      [] arg.fn = "horner" -> 2 * a + e

\* f(element, index)
MapFns == {"tens"}
f2(e, i) == 10 * e + i

\* predicate(element, index)
Predicates == {"isOne", "indexUnderTwo"}
predicate(e, i) ==
    CASE arg.fn = "isOne" -> e = 1
      [] arg.fn = "indexUnderTwo" -> i < 2

\* exclude handing the caller's predicate on as it is
passes_unnegated(e, i) ==
    CASE Op \in {"takeUntil", "dropUntil"} -> ~predicate(e, i)
      [] Op = "remove" -> ~(e = arg.value)
      [] Op = "removeFirst" -> e = arg.value
      [] Op = "all" -> ~predicate(e, i)
      [] Op = "and" -> ~e
      [] Op = "or" -> e
      [] OTHER -> predicate(e, i)

\* the predicate the body is called with: the caller's, or the one a wrapper
\* builds: async (element, index) => !(await predicate(element, index)) for
\* exclude, takeUntil and dropUntil, element => element === value for remove
\* and removeFirst (which exclude negates in turn)
passes(e, i) ==
    CASE Op \in {"exclude", "takeUntil", "dropUntil", "excludeFn"} -> ~predicate(e, i)
      [] Op = "remove" -> ~(e = arg.value)
      [] Op = "removeFirst" -> e = arg.value
      [] Op = "all" -> ~predicate(e, i)
      [] Op = "and" -> ~e
      [] Op = "or" -> e
      [] OTHER -> predicate(e, i)

\* select(element, index)
Selects == {"Number", "minusIndex"}
\* selectors that read the element only; capTwo is e => Math.min(e, 2)
KeyFns == {"Number", "capTwo"}
select(e, i) ==
    CASE arg.fn = "Number" -> e
      [] arg.fn = "minusIndex" -> e - i
      [] arg.fn = "capTwo" -> Min(e, 2)

\* toArray's loop pulls the lazy sequence: the generator body runs on
ConsumerNext ==
    /\ gen \in {"suspendedStart", "suspendedYield"}
    /\ ret = Pending
    /\ gen' = "executing"
    /\ UNCHANGED <<plan, run, hist, arg, ait, bit, pc, loc, out, ret, calls, extra>>

\* a pull on a generator that has completed: it answers done, its body does
\* not run
NextAfterDone ==
    /\ gen = "completed"
    /\ extra < MaxExtra
    /\ extra' = extra + 1
    /\ UNCHANGED <<plan, run, hist, arg, ait, bit, pc, gen, loc, out, ret, calls>>

Running(o) == Body(Op) = o /\ ret = Pending /\ (IsLazy(o) => gen = "executing")

\* ------------------------------------------------------ asyncIterable

asyncIterable_next ==
    /\ Running("asyncIterable") /\ pc \in {"start", "for"}
    /\ ait' = forAwaitNext(ait)
    /\ IF forAwaitThrows(ait) THEN ThrowGen("PullError") /\ pc' = "end" /\ loc' = loc
       ELSE IF forAwaitResult(ait).done THEN ReturnGen /\ pc' = "end" /\ loc' = loc
       ELSE /\ loc' = [loc EXCEPT !.element = forAwaitResult(ait).value]
            /\ pc' = "yield"
            /\ Continue
    /\ UNCHANGED <<bit, calls, extra>> /\ Frame

asyncIterable_yield ==
    /\ Running("asyncIterable") /\ pc = "yield"
    /\ Yield(loc.element)
    /\ pc' = "for"
    /\ UNCHANGED <<ait, bit, loc, calls, extra>> /\ Frame

\* --------------------------------------------------------------- take

\* if (c === 0)
take_nothing_never(c) == FALSE
take_nothing(c) == StrictEq(c, Num(0))

\* if (++i >= c), i already incremented
take_enough_late(i, c) == GreaterEq(Num(i), c) /\ ~StrictEq(Num(i), c)
take_enough(i, c) == GreaterEq(Num(i), c)

\* const c = await count; if (c === 0) return; let i = 0;
take_count ==
    /\ Running("take") /\ pc = "start"
    /\ loc' = [loc EXCEPT !.c = arg.count, !.i = 0]
    /\ IF take_nothing(arg.count) THEN ReturnGen /\ pc' = "end"
       ELSE Continue /\ pc' = "for"
    /\ UNCHANGED <<ait, bit, calls, extra>> /\ Frame

\* for await (const element of await iterable)
take_next ==
    /\ Running("take") /\ pc = "for"
    /\ ait' = forAwaitNext(ait)
    /\ IF forAwaitThrows(ait) THEN ThrowGen("PullError") /\ pc' = "end" /\ loc' = loc
       ELSE IF forAwaitResult(ait).done THEN ReturnGen /\ pc' = "end" /\ loc' = loc
       ELSE /\ loc' = [loc EXCEPT !.element = forAwaitResult(ait).value]
            /\ pc' = "yield"
            /\ Continue
    /\ UNCHANGED <<bit, calls, extra>> /\ Frame

\* yield element;
take_yield ==
    /\ Running("take") /\ pc = "yield"
    /\ Yield(loc.element)
    /\ pc' = "check"
    /\ UNCHANGED <<ait, bit, loc, calls, extra>> /\ Frame

\* if (++i >= c) return;
take_check ==
    /\ Running("take") /\ pc = "check"
    /\ loc' = [loc EXCEPT !.i = @ + 1]
    /\ IF take_enough(loc.i + 1, loc.c)
       THEN ReturnGen /\ pc' = "end" /\ ait' = forAwaitClose(ait)
       ELSE Continue /\ pc' = "for" /\ ait' = ait
    /\ UNCHANGED <<bit, calls, extra>> /\ Frame

\* --------------------------------------------------------------- drop

\* a count awaited when drop is called, before its sequence is pulled
drop_count_eager ==
    /\ Op = "drop" /\ ret = Pending /\ pc = "start"
    /\ loc' = [loc EXCEPT !.c = arg.count]
    /\ pc' = "first"
    /\ Continue
    /\ UNCHANGED <<ait, bit, calls, extra>> /\ Frame

\* const iterator = asyncIterator(iterable); const c = await count;
drop_count ==
    /\ Running("drop") /\ pc = "start"
    /\ loc' = [loc EXCEPT !.c = arg.count]
    /\ pc' = "first"
    /\ Continue
    /\ UNCHANGED <<ait, bit, calls, extra>> /\ Frame

\* let result = await iterator.next();  (and the loop's let i = 0)
drop_first ==
    /\ Running("drop") /\ pc = "first"
    /\ ait' = iteratorNext(ait)
    /\ IF iteratorThrows(ait) THEN ThrowGen("PullError") /\ pc' = "end" /\ loc' = loc
       ELSE /\ loc' = [loc EXCEPT !.result = iteratorResult(ait), !.i = 0]
            /\ pc' = "skip"
            /\ Continue
    /\ UNCHANGED <<bit, calls, extra>> /\ Frame

\* for (...; i < c && result.done !== true; ++i) result = await iterator.next();
drop_skip ==
    /\ Running("drop") /\ pc = "skip"
    /\ IF Less(Num(loc.i), loc.c) /\ ~loc.result.done
       THEN /\ ait' = iteratorNext(ait)
            /\ IF iteratorThrows(ait) THEN ThrowGen("PullError") /\ pc' = "end" /\ loc' = loc
               ELSE /\ loc' = [loc EXCEPT !.result = iteratorResult(ait), !.i = @ + 1]
                    /\ pc' = "skip"
                    /\ Continue
       ELSE /\ pc' = "while"
            /\ Continue
            /\ UNCHANGED <<ait, loc>>
    /\ UNCHANGED <<bit, calls, extra>> /\ Frame

\* while (result.done !== true) { yield result.value;
drop_yield ==
    /\ Running("drop") /\ pc = "while"
    /\ IF ~loc.result.done
       THEN Yield(loc.result.value) /\ pc' = "next"
       ELSE ReturnGen /\ pc' = "end"
    /\ UNCHANGED <<ait, bit, loc, calls, extra>> /\ Frame

\* result = await iterator.next(); }
drop_next ==
    /\ Running("drop") /\ pc = "next"
    /\ ait' = iteratorNext(ait)
    /\ IF iteratorThrows(ait) THEN ThrowGen("PullError") /\ pc' = "end" /\ loc' = loc
       ELSE /\ loc' = [loc EXCEPT !.result = iteratorResult(ait)]
            /\ pc' = "while"
            /\ Continue
    /\ UNCHANGED <<bit, calls, extra>> /\ Frame

\* --------------------------------------------------------------- only

\* const iterator = asyncIterator(iterable); const first = await iterator.next();
only_first ==
    /\ Running("only") /\ pc = "start"
    /\ ait' = iteratorNext(ait)
    /\ IF iteratorThrows(ait) THEN Throw("PullError") /\ pc' = "end" /\ loc' = loc
       ELSE /\ loc' = [loc EXCEPT !.first = iteratorResult(ait)]
            /\ pc' = "second"
            /\ Continue
    /\ UNCHANGED <<bit, calls, extra>> /\ Frame

\* what only returns when the second pull answered r
only_value_any(first, r) == first.value
only_value(first, r) == IF r.done THEN first.value ELSE null

\* return !(first.done ?? false) && ((await iterator.next()).done ?? false)
\*     ? first.value : null;
only_second ==
    /\ Running("only") /\ pc = "second"
    /\ pc' = "end"
    /\ IF ~loc.first.done
       THEN /\ ait' = iteratorNext(ait)
            /\ IF iteratorThrows(ait) THEN Throw("PullError")
               ELSE Return(only_value(loc.first, iteratorResult(ait)))
       ELSE /\ ait' = ait
            /\ Return(null)
    /\ UNCHANGED <<bit, loc, calls, extra>> /\ Frame

\* -------------------------------------------------- equal and notEqual

\* notEqual returns !(await equal(a, b, elementsEqual))
equal_returns(v) == IF Op = "notEqual" THEN Return(~v) ELSE Return(v)

\* let ar = await ait.next();  (also at the end of the loop body)
equal_a ==
    /\ Op \in {"equal", "notEqual"} /\ ret = Pending /\ pc \in {"start", "a"}
    /\ ait' = iteratorNext(ait)
    /\ loc' = [loc EXCEPT !.ar = iteratorResult(ait)]
    /\ pc' = "b"
    /\ Continue
    /\ UNCHANGED <<bit, calls, extra>> /\ Frame

\* a pull on b that is left out when a is exhausted
equal_b_spared ==
    /\ Op \in {"equal", "notEqual"} /\ ret = Pending /\ pc = "b"
    /\ bit' = IF loc.ar.done THEN bit ELSE iteratorNext(bit)
    /\ loc' = [loc EXCEPT !.br = iteratorResult(bit)]
    /\ pc' = "while"
    /\ Continue
    /\ UNCHANGED <<ait, calls, extra>> /\ Frame

\* let br = await bit.next();  (also at the end of the loop body)
equal_b ==
    /\ Op \in {"equal", "notEqual"} /\ ret = Pending /\ pc = "b"
    /\ bit' = iteratorNext(bit)
    /\ loc' = [loc EXCEPT !.br = iteratorResult(bit)]
    /\ pc' = "while"
    /\ Continue
    /\ UNCHANGED <<ait, calls, extra>> /\ Frame

\* return (ar.done ?? false) && (br.done ?? false);
equal_verdict_b_only(ar, br) == br.done
equal_verdict(ar, br) == ar.done /\ br.done

\* while (ar.done !== true && br.done !== true) {
\*     if (!(await elementsEqual(ar.value, br.value))) return false;
equal_while ==
    /\ Op \in {"equal", "notEqual"} /\ ret = Pending /\ pc = "while"
    /\ IF ~loc.ar.done /\ ~loc.br.done
       THEN /\ calls' = Append(calls, <<loc.ar.value, loc.br.value>>)
            /\ IF elementsEqual(loc.ar.value, loc.br.value)
               THEN Continue /\ pc' = "a"
               ELSE equal_returns(FALSE) /\ pc' = "end"
       ELSE /\ calls' = calls
            /\ equal_returns(equal_verdict(loc.ar, loc.br))
            /\ pc' = "end"
    /\ UNCHANGED <<ait, bit, loc, extra>> /\ Frame

\* -------------------------------------------------------- prefixMatch

\* let ar = await ait.next();  (also at the end of the loop body)
prefixMatch_a ==
    /\ Running("prefixMatch") /\ pc \in {"start", "a"}
    /\ ait' = iteratorNext(ait)
    /\ loc' = [loc EXCEPT !.ar = iteratorResult(ait)]
    /\ pc' = "b"
    /\ Continue
    /\ UNCHANGED <<bit, calls, extra>> /\ Frame

\* let br = await bit.next();  (also at the end of the loop body)
prefixMatch_b ==
    /\ Running("prefixMatch") /\ pc = "b"
    /\ bit' = iteratorNext(bit)
    /\ loc' = [loc EXCEPT !.br = iteratorResult(bit)]
    /\ pc' = "while"
    /\ Continue
    /\ UNCHANGED <<ait, calls, extra>> /\ Frame

\* return br.done ?? false;
prefixMatch_verdict_both(ar, br) == ar.done /\ br.done
prefixMatch_verdict(ar, br) == br.done

\* while (ar.done !== true && br.done !== true) {
\*     if (!(await elementsEqual(ar.value, br.value))) return false;
prefixMatch_while ==
    /\ Running("prefixMatch") /\ pc = "while"
    /\ IF ~loc.ar.done /\ ~loc.br.done
       THEN /\ calls' = Append(calls, <<loc.ar.value, loc.br.value>>)
            /\ IF elementsEqual(loc.ar.value, loc.br.value)
               THEN Continue /\ pc' = "a"
               ELSE Return(FALSE) /\ pc' = "end"
       ELSE /\ calls' = calls
            /\ Return(prefixMatch_verdict(loc.ar, loc.br))
            /\ pc' = "end"
    /\ UNCHANGED <<ait, bit, loc, extra>> /\ Frame

\* ---------------------------------------------------------------- map

\* a pull that does not wait for the callback of the element before
map_next_ahead ==
    /\ Running("map") /\ pc \in {"start", "for", "call"}
    /\ ait' = forAwaitNext(ait)
    /\ IF forAwaitThrows(ait) THEN ThrowGen("PullError") /\ pc' = "end" /\ loc' = loc
       ELSE IF forAwaitResult(ait).done THEN ReturnGen /\ pc' = "end" /\ loc' = loc
       ELSE /\ loc' = [loc EXCEPT !.element = forAwaitResult(ait).value]
            /\ pc' = "call"
            /\ Continue
    /\ UNCHANGED <<bit, calls, extra>> /\ Frame

\* for await (const element of await iterable)
map_next ==
    /\ Running("map") /\ pc \in {"start", "for"}
    /\ ait' = forAwaitNext(ait)
    /\ IF forAwaitThrows(ait) THEN ThrowGen("PullError") /\ pc' = "end" /\ loc' = loc
       ELSE IF forAwaitResult(ait).done THEN ReturnGen /\ pc' = "end" /\ loc' = loc
       ELSE /\ loc' = [loc EXCEPT !.element = forAwaitResult(ait).value]
            /\ pc' = "call"
            /\ Continue
    /\ UNCHANGED <<bit, calls, extra>> /\ Frame

\* await f(element, i++), calling f again when it failed
map_call_retry ==
    /\ Running("map") /\ pc = "call"
    /\ calls' = Append(calls, <<loc.element, loc.i>>)
    /\ IF CallThrows
       THEN /\ Continue /\ pc' = "call"
            /\ ait' = ait
            /\ loc' = loc
       ELSE /\ Continue /\ pc' = "yield"
            /\ ait' = ait
            /\ loc' = [loc EXCEPT !.i = @ + 1, !.value = f2(loc.element, loc.i)]
    /\ UNCHANGED <<bit, extra>> /\ Frame

\* await f(element, i++)
map_call ==
    /\ Running("map") /\ pc = "call"
    /\ calls' = Append(calls, <<loc.element, loc.i>>)
    /\ IF CallThrows
       THEN /\ ThrowGen("CallbackError") /\ pc' = "end"
            /\ ait' = forAwaitClose(ait)
            /\ loc' = [loc EXCEPT !.i = @ + 1]
       ELSE /\ Continue /\ pc' = "yield"
            /\ ait' = ait
            /\ loc' = [loc EXCEPT !.i = @ + 1, !.value = f2(loc.element, loc.i)]
    /\ UNCHANGED <<bit, extra>> /\ Frame

\* yield (the value f returned)
map_yield ==
    /\ Running("map") /\ pc = "yield"
    /\ Yield(loc.value)
    /\ pc' = "for"
    /\ UNCHANGED <<ait, bit, loc, calls, extra>> /\ Frame

\* ------------------------------------------------------------- filter

\* for await (const element of await iterable)
filter_next ==
    /\ Running("filter") /\ pc \in {"start", "for"}
    /\ ait' = forAwaitNext(ait)
    /\ IF forAwaitThrows(ait) THEN ThrowGen("PullError") /\ pc' = "end" /\ loc' = loc
       ELSE IF forAwaitResult(ait).done THEN ReturnGen /\ pc' = "end" /\ loc' = loc
       ELSE /\ loc' = [loc EXCEPT !.element = forAwaitResult(ait).value]
            /\ pc' = "call"
            /\ Continue
    /\ UNCHANGED <<bit, calls, extra>> /\ Frame

\* a predicate given the number of elements yielded so far as its index
filter_call_yielded ==
    /\ Running("filter") /\ pc = "call"
    /\ calls' = Append(calls, <<loc.element, Len(out)>>)
    /\ loc' = [loc EXCEPT !.i = @ + 1]
    /\ IF CallThrows
       THEN ThrowGen("CallbackError") /\ pc' = "end" /\ ait' = forAwaitClose(ait)
       ELSE /\ Continue /\ ait' = ait
            /\ pc' = IF passes(loc.element, Len(out)) THEN "yield" ELSE "for"
    /\ UNCHANGED <<bit, extra>> /\ Frame

\* if (await predicate(element, i++))
filter_call ==
    /\ Running("filter") /\ pc = "call"
    /\ calls' = Append(calls, <<loc.element, loc.i>>)
    /\ loc' = [loc EXCEPT !.i = @ + 1]
    /\ IF CallThrows
       THEN ThrowGen("CallbackError") /\ pc' = "end" /\ ait' = forAwaitClose(ait)
       ELSE /\ Continue /\ ait' = ait
            /\ pc' = IF passes(loc.element, loc.i) THEN "yield" ELSE "for"
    /\ UNCHANGED <<bit, extra>> /\ Frame

\* yield element;
filter_yield ==
    /\ Running("filter") /\ pc = "yield"
    /\ Yield(loc.element)
    /\ pc' = "for"
    /\ UNCHANGED <<ait, bit, loc, calls, extra>> /\ Frame

\* ----------------------------------------------------- asyncExcludeFn

\* export const asyncExcludeFn = exclude;  asyncExcludeFn(predicate) is
\* exclude(predicate, undefined), an AsyncIterable: applying it to the
\* iterable throws, and the iterable is not read
asyncExcludeFn_apply ==
    /\ Running("asyncExcludeFn") /\ pc = "start"
    /\ Throw("TypeError")
    /\ pc' = "end"
    /\ UNCHANGED <<ait, bit, loc, calls, extra>> /\ Frame

\* ---------------------------------------------------------- takeWhile

\* for await (const element of await iterable)
takeWhile_next ==
    /\ Running("takeWhile") /\ pc \in {"start", "for"}
    /\ ait' = forAwaitNext(ait)
    /\ IF forAwaitThrows(ait) THEN ThrowGen("PullError") /\ pc' = "end" /\ loc' = loc
       ELSE IF forAwaitResult(ait).done THEN ReturnGen /\ pc' = "end" /\ loc' = loc
       ELSE /\ loc' = [loc EXCEPT !.element = forAwaitResult(ait).value]
            /\ pc' = "call"
            /\ Continue
    /\ UNCHANGED <<bit, calls, extra>> /\ Frame

\* the same with continue for return: the loop goes on after a failure
takeWhile_call_continue ==
    /\ Running("takeWhile") /\ pc = "call"
    /\ calls' = Append(calls, <<loc.element, loc.i>>)
    /\ IF CallThrows
       THEN ThrowGen("CallbackError") /\ pc' = "end" /\ ait' = forAwaitClose(ait)
       ELSE IF ~passes(loc.element, loc.i)
       THEN Continue /\ pc' = "for" /\ ait' = ait
       ELSE Continue /\ pc' = "yield" /\ ait' = ait
    /\ UNCHANGED <<bit, loc, extra>> /\ Frame

\* if (!(await predicate(element, i))) return;
takeWhile_call ==
    /\ Running("takeWhile") /\ pc = "call"
    /\ calls' = Append(calls, <<loc.element, loc.i>>)
    /\ IF CallThrows
       THEN ThrowGen("CallbackError") /\ pc' = "end" /\ ait' = forAwaitClose(ait)
       ELSE IF ~passes(loc.element, loc.i)
       THEN ReturnGen /\ pc' = "end" /\ ait' = forAwaitClose(ait)
       ELSE Continue /\ pc' = "yield" /\ ait' = ait
    /\ UNCHANGED <<bit, loc, extra>> /\ Frame

\* yield element;
takeWhile_yield ==
    /\ Running("takeWhile") /\ pc = "yield"
    /\ Yield(loc.element)
    /\ pc' = "incr"
    /\ UNCHANGED <<ait, bit, loc, calls, extra>> /\ Frame

\* ++i;
takeWhile_incr ==
    /\ Running("takeWhile") /\ pc = "incr"
    /\ loc' = [loc EXCEPT !.i = @ + 1]
    /\ pc' = "for"
    /\ Continue
    /\ UNCHANGED <<ait, bit, calls, extra>> /\ Frame

\* --------------------------------------------------------------- scan

\* let i = 0; let accumulator = initial;
scan_start ==
    /\ Running("scan") /\ pc = "start"
    /\ loc' = [loc EXCEPT !.i = 0, !.accumulator = arg.initial]
    /\ pc' = "for"
    /\ Continue
    /\ UNCHANGED <<ait, bit, calls, extra>> /\ Frame

\* for await (const element of await iterable)
scan_next ==
    /\ Running("scan") /\ pc = "for"
    /\ ait' = forAwaitNext(ait)
    /\ IF forAwaitThrows(ait) THEN ThrowGen("PullError") /\ pc' = "end" /\ loc' = loc
       ELSE IF forAwaitResult(ait).done THEN ReturnGen /\ pc' = "end" /\ loc' = loc
       ELSE /\ loc' = [loc EXCEPT !.element = forAwaitResult(ait).value]
            /\ pc' = "call"
            /\ Continue
    /\ UNCHANGED <<bit, calls, extra>> /\ Frame

\* accumulator = await f(accumulator, element, i++)
scan_call ==
    /\ Running("scan") /\ pc = "call"
    /\ calls' = Append(calls, <<loc.accumulator, loc.element, loc.i>>)
    /\ IF CallThrows
       THEN /\ ThrowGen("CallbackError") /\ pc' = "end"
            /\ ait' = forAwaitClose(ait)
            /\ loc' = [loc EXCEPT !.i = @ + 1]
       ELSE /\ Continue /\ pc' = "yield"
            /\ ait' = ait
            /\ loc' = [loc EXCEPT !.i = @ + 1,
                                  !.accumulator = f3(loc.accumulator, loc.element, loc.i)]
    /\ UNCHANGED <<bit, extra>> /\ Frame

\* yield (accumulator = ...)
scan_yield ==
    /\ Running("scan") /\ pc = "yield"
    /\ Yield(loc.accumulator)
    /\ pc' = "for"
    /\ UNCHANGED <<ait, bit, loc, calls, extra>> /\ Frame

\* --------------------------------------------------------------- fold

\* let accumulator = initial; let i = 0;
fold_start ==
    /\ Running("fold") /\ pc = "start"
    /\ loc' = [loc EXCEPT !.i = 0, !.accumulator = arg.initial]
    /\ pc' = "for"
    /\ Continue
    /\ UNCHANGED <<ait, bit, calls, extra>> /\ Frame

\* for await (const element of await iterable) ... return accumulator;
fold_next ==
    /\ Running("fold") /\ pc = "for"
    /\ ait' = forAwaitNext(ait)
    /\ IF forAwaitThrows(ait) THEN Throw("PullError") /\ pc' = "end" /\ loc' = loc
       ELSE IF forAwaitResult(ait).done
       THEN Return(loc.accumulator) /\ pc' = "end" /\ loc' = loc
       ELSE /\ loc' = [loc EXCEPT !.element = forAwaitResult(ait).value]
            /\ pc' = "call"
            /\ Continue
    /\ UNCHANGED <<bit, calls, extra>> /\ Frame

\* accumulator = await f(accumulator, element, i);  (i never incremented)
fold_call_same_index ==
    /\ Running("fold") /\ pc = "call"
    /\ calls' = Append(calls, <<loc.accumulator, loc.element, loc.i>>)
    /\ IF CallThrows
       THEN /\ Throw("CallbackError") /\ pc' = "end"
            /\ ait' = forAwaitClose(ait)
            /\ loc' = loc
       ELSE /\ Continue /\ pc' = "for"
            /\ ait' = ait
            /\ loc' = [loc EXCEPT !.accumulator = f3(loc.accumulator, loc.element, loc.i)]
    /\ UNCHANGED <<bit, extra>> /\ Frame

\* accumulator = await f(accumulator, element, i++);
fold_call ==
    /\ Running("fold") /\ pc = "call"
    /\ calls' = Append(calls, <<loc.accumulator, loc.element, loc.i>>)
    /\ IF CallThrows
       THEN /\ Throw("CallbackError") /\ pc' = "end"
            /\ ait' = forAwaitClose(ait)
            /\ loc' = [loc EXCEPT !.i = @ + 1]
       ELSE /\ Continue /\ pc' = "for"
            /\ ait' = ait
            /\ loc' = [loc EXCEPT !.i = @ + 1,
                                  !.accumulator = f3(loc.accumulator, loc.element, loc.i)]
    /\ UNCHANGED <<bit, extra>> /\ Frame

\* -------------------------------------------------------------- fold1

\* fold1's first step, returning null for an empty source
fold1_first_default ==
    /\ Running("fold1") /\ pc = "start"
    /\ ait' = iteratorNext(ait)
    /\ IF iteratorThrows(ait) THEN Throw("PullError") /\ pc' = "end" /\ loc' = loc
       ELSE IF iteratorResult(ait).done
       THEN Return(null) /\ pc' = "end" /\ loc' = loc
       ELSE /\ loc' = [loc EXCEPT !.result = iteratorResult(ait),
                                  !.accumulator = iteratorResult(ait).value,
                                  !.i = 1]
            /\ pc' = "next"
            /\ Continue
    /\ UNCHANGED <<bit, calls, extra>> /\ Frame

\* let result = await iterator.next();
\* if (result.done === true) throw new TypeError("fold1: empty AsyncIterable");
\* let accumulator = result.value; let i = 1;
fold1_first ==
    /\ Running("fold1") /\ pc = "start"
    /\ ait' = iteratorNext(ait)
    /\ IF iteratorThrows(ait) THEN Throw("PullError") /\ pc' = "end" /\ loc' = loc
       ELSE IF iteratorResult(ait).done
       THEN Throw("TypeError: fold1: empty AsyncIterable") /\ pc' = "end" /\ loc' = loc
       ELSE /\ loc' = [loc EXCEPT !.result = iteratorResult(ait),
                                  !.accumulator = iteratorResult(ait).value,
                                  !.i = 1]
            /\ pc' = "next"
            /\ Continue
    /\ UNCHANGED <<bit, calls, extra>> /\ Frame

\* result = await iterator.next();  (before the loop and ending its body)
fold1_next ==
    /\ Running("fold1") /\ pc = "next"
    /\ ait' = iteratorNext(ait)
    /\ IF iteratorThrows(ait) THEN Throw("PullError") /\ pc' = "end" /\ loc' = loc
       ELSE /\ loc' = [loc EXCEPT !.result = iteratorResult(ait)]
            /\ pc' = "while"
            /\ Continue
    /\ UNCHANGED <<bit, calls, extra>> /\ Frame

\* while (result.done !== true) {
\*     accumulator = await f(accumulator, result.value, i++);
\* ... return accumulator;
fold1_while ==
    /\ Running("fold1") /\ pc = "while"
    /\ IF loc.result.done
       THEN Return(loc.accumulator) /\ pc' = "end" /\ UNCHANGED <<loc, calls>>
       ELSE /\ calls' = Append(calls, <<loc.accumulator, loc.result.value, loc.i>>)
            /\ IF CallThrows
               THEN /\ Throw("CallbackError") /\ pc' = "end"
                    /\ loc' = [loc EXCEPT !.i = @ + 1]
               ELSE /\ Continue /\ pc' = "next"
                    /\ loc' = [loc EXCEPT
                          !.i = @ + 1,
                          !.accumulator = f3(loc.accumulator, loc.result.value, loc.i)]
    /\ UNCHANGED <<ait, bit, extra>> /\ Frame

\* -------------------------------------------------------------- index

\* index < 0 || !isFinite(index)
index_illegal_no_floor(x) == Less(x, Num(0)) \/ ~isFinite(x)

\* index < 0 || !isFinite(index) || Math.floor(index) !== index
index_illegal(x) == Less(x, Num(0)) \/ ~isFinite(x) \/ ~StrictEq(floor(x), x)

\* if (...) throw new RangeError("illegal index"); let i = 0;
index_check ==
    /\ Running("index") /\ pc = "start"
    /\ IF index_illegal(arg.count)
       THEN Throw("RangeError: illegal index") /\ pc' = "end" /\ loc' = loc
       ELSE Continue /\ pc' = "for" /\ loc' = [loc EXCEPT !.i = 0]
    /\ UNCHANGED <<ait, bit, calls, extra>> /\ Frame

\* for await (const element of await iterable) {
\*     if (i++ === index) return element; } return null;
index_next ==
    /\ Running("index") /\ pc = "for"
    /\ IF forAwaitThrows(ait)
       THEN /\ Throw("PullError") /\ pc' = "end" /\ loc' = loc
            /\ ait' = forAwaitNext(ait)
       ELSE IF forAwaitResult(ait).done
       THEN /\ Return(null) /\ pc' = "end" /\ loc' = loc
            /\ ait' = forAwaitNext(ait)
       ELSE /\ loc' = [loc EXCEPT !.i = @ + 1, !.element = forAwaitResult(ait).value]
            /\ IF StrictEq(Num(loc.i), arg.count)
               THEN /\ Return(forAwaitResult(ait).value) /\ pc' = "end"
                    /\ ait' = forAwaitClose(forAwaitNext(ait))
               ELSE /\ Continue /\ pc' = "for"
                    /\ ait' = forAwaitNext(ait)
    /\ UNCHANGED <<bit, calls, extra>> /\ Frame

\* --------------------------------------------------------------- find

\* for await (const element of await iterable) ... return null;
find_next ==
    /\ Running("find") /\ pc \in {"start", "for"}
    /\ ait' = forAwaitNext(ait)
    /\ IF forAwaitThrows(ait) THEN Throw("PullError") /\ pc' = "end" /\ loc' = loc
       ELSE IF forAwaitResult(ait).done THEN Return(null) /\ pc' = "end" /\ loc' = loc
       ELSE /\ loc' = [loc EXCEPT !.element = forAwaitResult(ait).value]
            /\ pc' = "call"
            /\ Continue
    /\ UNCHANGED <<bit, calls, extra>> /\ Frame

\* if (await predicate(element, i++)) return element;
find_call ==
    /\ Running("find") /\ pc = "call"
    /\ calls' = Append(calls, <<loc.element, loc.i>>)
    /\ loc' = [loc EXCEPT !.i = @ + 1]
    /\ IF CallThrows
       THEN Throw("CallbackError") /\ pc' = "end" /\ ait' = forAwaitClose(ait)
       ELSE IF predicate(loc.element, loc.i)
       THEN Return(loc.element) /\ pc' = "end" /\ ait' = forAwaitClose(ait)
       ELSE Continue /\ pc' = "for" /\ ait' = ait
    /\ UNCHANGED <<bit, extra>> /\ Frame

\* ------------------------------------------- maximumBy and minimumBy

\* minimumBy is maximumBy with the selector
\* async (element, index) => -(await select(element, index))
selected(e, i) == IF Op = "minimumBy" THEN 0 - select(e, i) ELSE select(e, i)

\* let result = await iterator.next(); if (result.done === true) return null;
maximumBy_first ==
    /\ Op \in {"maximumBy", "minimumBy"} /\ ret = Pending /\ pc = "start"
    /\ ait' = iteratorNext(ait)
    /\ IF iteratorThrows(ait) THEN Throw("PullError") /\ pc' = "end" /\ loc' = loc
       ELSE IF iteratorResult(ait).done THEN Return(null) /\ pc' = "end" /\ loc' = loc
       ELSE /\ loc' = [loc EXCEPT !.result = iteratorResult(ait)]
            /\ pc' = "select"
            /\ Continue
    /\ UNCHANGED <<bit, calls, extra>> /\ Frame

\* let max = result.value; let maxBy = await select(result.value, 0); let i = 0;
maximumBy_select ==
    /\ Op \in {"maximumBy", "minimumBy"} /\ ret = Pending /\ pc = "select"
    /\ calls' = Append(calls, <<loc.result.value, 0>>)
    /\ IF CallThrows
       THEN /\ Throw("CallbackError") /\ pc' = "end"
            /\ loc' = [loc EXCEPT !.max = loc.result.value]
       ELSE /\ Continue /\ pc' = "next"
            /\ loc' = [loc EXCEPT !.max = loc.result.value,
                                  !.maxBy = selected(loc.result.value, 0),
                                  !.i = 0]
    /\ UNCHANGED <<ait, bit, extra>> /\ Frame

\* result = await iterator.next();  (before the loop and ending its body)
maximumBy_next ==
    /\ Op \in {"maximumBy", "minimumBy"} /\ ret = Pending /\ pc = "next"
    /\ ait' = iteratorNext(ait)
    /\ IF iteratorThrows(ait) THEN Throw("PullError") /\ pc' = "end" /\ loc' = loc
       ELSE /\ loc' = [loc EXCEPT !.result = iteratorResult(ait)]
            /\ pc' = "while"
            /\ Continue
    /\ UNCHANGED <<bit, calls, extra>> /\ Frame

\* while (result.done !== true) {
\*     const by = await select(result.value, i++);
\*     if (by > maxBy) { max = result.value; maxBy = by; }
\* ... return max;
maximumBy_while ==
    /\ Op \in {"maximumBy", "minimumBy"} /\ ret = Pending /\ pc = "while"
    /\ IF loc.result.done
       THEN Return(loc.max) /\ pc' = "end" /\ UNCHANGED <<loc, calls>>
       ELSE /\ calls' = Append(calls, <<loc.result.value, loc.i>>)
            /\ IF CallThrows
               THEN /\ Throw("CallbackError") /\ pc' = "end"
                    /\ loc' = [loc EXCEPT !.i = @ + 1]
               ELSE /\ Continue /\ pc' = "next"
                    /\ loc' = IF selected(loc.result.value, loc.i) > loc.maxBy
                              THEN [loc EXCEPT !.i = @ + 1,
                                               !.max = loc.result.value,
                                               !.maxBy = selected(loc.result.value, loc.i)]
                              ELSE [loc EXCEPT !.i = @ + 1]
    /\ UNCHANGED <<ait, bit, extra>> /\ Frame

\* ------------------------------------------------ maximum and minimum

\* the comparators maximum and minimum are called with: defaultCompare of
\* @softwareventures/ordered on numbers (negative, zero or positive as a is
\* before, equal to or after b), or one that compares e => Math.min(e, 2)
compare(a, b) ==
    LET ka == IF arg.fn = "capTwo" THEN Min(a, 2) ELSE a
        kb == IF arg.fn = "capTwo" THEN Min(b, 2) ELSE b
    IN  IF ka < kb THEN 0 - 1 ELSE IF ka > kb THEN 1 ELSE 0

\* reverse(compare) of @softwareventures/ordered
reverse(a, b) == 0 - compare(a, b)

\* maximum calls internalMaximum(iterable, compare), minimum calls
\* internalMaximum(iterable, reverse(compare))
compared(a, b) == IF Op = "minimum" THEN reverse(a, b) ELSE compare(a, b)

\* let result = await iterator.next(); if (result.done === true) return null;
\* let max = result.value;
internalMaximum_first ==
    /\ Op \in {"maximum", "minimum"} /\ ret = Pending /\ pc = "start"
    /\ ait' = iteratorNext(ait)
    /\ IF iteratorThrows(ait) THEN Throw("PullError") /\ pc' = "end" /\ loc' = loc
       ELSE IF iteratorResult(ait).done THEN Return(null) /\ pc' = "end" /\ loc' = loc
       ELSE /\ loc' = [loc EXCEPT !.max = iteratorResult(ait).value]
            /\ pc' = "next"
            /\ Continue
    /\ UNCHANGED <<bit, calls, extra>> /\ Frame

\* result = await iterator.next();  (before the loop and ending its body)
internalMaximum_next ==
    /\ Op \in {"maximum", "minimum"} /\ ret = Pending /\ pc = "next"
    /\ ait' = iteratorNext(ait)
    /\ IF iteratorThrows(ait) THEN Throw("PullError") /\ pc' = "end" /\ loc' = loc
       ELSE /\ loc' = [loc EXCEPT !.result = iteratorResult(ait)]
            /\ pc' = "while"
            /\ Continue
    /\ UNCHANGED <<bit, calls, extra>> /\ Frame

\* the same with >= for >: the last of several maximal elements is kept
internalMaximum_while_last ==
    /\ Op \in {"maximum", "minimum"} /\ ret = Pending /\ pc = "while"
    /\ IF loc.result.done
       THEN Return(loc.max) /\ pc' = "end" /\ loc' = loc
       ELSE /\ Continue /\ pc' = "next"
            /\ loc' = IF compared(loc.result.value, loc.max) >= 0
                      THEN [loc EXCEPT !.max = loc.result.value]
                      ELSE loc
    /\ UNCHANGED <<ait, bit, calls, extra>> /\ Frame

\* while (result.done !== true) {
\*     if (compare(result.value, max) > 0) max = result.value;
\* ... return max;
internalMaximum_while ==
    /\ Op \in {"maximum", "minimum"} /\ ret = Pending /\ pc = "while"
    /\ IF loc.result.done
       THEN Return(loc.max) /\ pc' = "end" /\ loc' = loc
       ELSE /\ Continue /\ pc' = "next"
            /\ loc' = IF compared(loc.result.value, loc.max) > 0
                      THEN [loc EXCEPT !.max = loc.result.value]
                      ELSE loc
    /\ UNCHANGED <<ait, bit, calls, extra>> /\ Frame

\* --------------------------------------------------------------- tail

\* the same keeping the result of the first pull for the loop
tail_first_kept ==
    /\ Running("tail") /\ pc = "start"
    /\ ait' = iteratorNext(ait)
    /\ IF iteratorThrows(ait) THEN ThrowGen("PullError") /\ pc' = "end" /\ loc' = loc
       ELSE /\ Continue /\ pc' = "while"
            /\ loc' = [loc EXCEPT !.result = iteratorResult(ait)]
    /\ UNCHANGED <<bit, calls, extra>> /\ Frame

\* const iterator = asyncIterator(iterable); await iterator.next();
tail_first ==
    /\ Running("tail") /\ pc = "start"
    /\ ait' = iteratorNext(ait)
    /\ IF iteratorThrows(ait) THEN ThrowGen("PullError") /\ pc' = "end"
       ELSE Continue /\ pc' = "next"
    /\ UNCHANGED <<bit, loc, calls, extra>> /\ Frame

\* result = await iterator.next();  (before the loop and ending its body)
tail_next ==
    /\ Running("tail") /\ pc = "next"
    /\ ait' = iteratorNext(ait)
    /\ IF iteratorThrows(ait) THEN ThrowGen("PullError") /\ pc' = "end" /\ loc' = loc
       ELSE /\ Continue /\ pc' = "while"
            /\ loc' = [loc EXCEPT !.result = iteratorResult(ait)]
    /\ UNCHANGED <<bit, calls, extra>> /\ Frame

\* while (result.done !== true) { yield result.value;
tail_while ==
    /\ Running("tail") /\ pc = "while"
    /\ IF loc.result.done
       THEN ReturnGen /\ pc' = "end"
       ELSE Yield(loc.result.value) /\ pc' = "next"
    /\ UNCHANGED <<ait, bit, loc, calls, extra>> /\ Frame

\* ------------------------------------------------------------ initial

\* const iterator = asyncIterator(iterable); let prev = await iterator.next();
initial_prev ==
    /\ Running("initial") /\ pc = "start"
    /\ ait' = iteratorNext(ait)
    /\ IF iteratorThrows(ait) THEN ThrowGen("PullError") /\ pc' = "end" /\ loc' = loc
       ELSE /\ Continue /\ pc' = "element"
            /\ loc' = [loc EXCEPT !.prev = iteratorResult(ait)]
    /\ UNCHANGED <<bit, calls, extra>> /\ Frame

\* let element = prev.done === true ? prev : await iterator.next();
initial_element ==
    /\ Running("initial") /\ pc = "element"
    /\ IF loc.prev.done
       THEN /\ Continue /\ pc' = "while" /\ ait' = ait
            /\ loc' = [loc EXCEPT !.element = loc.prev]
       ELSE /\ ait' = iteratorNext(ait)
            /\ IF iteratorThrows(ait)
               THEN ThrowGen("PullError") /\ pc' = "end" /\ loc' = loc
               ELSE /\ Continue /\ pc' = "while"
                    /\ loc' = [loc EXCEPT !.element = iteratorResult(ait)]
    /\ UNCHANGED <<bit, calls, extra>> /\ Frame

\* a loop that tests prev in place of element
initial_while_prev ==
    /\ Running("initial") /\ pc = "while"
    /\ IF loc.prev.done
       THEN ReturnGen /\ pc' = "end"
       ELSE Yield(loc.prev.value) /\ pc' = "shift"
    /\ UNCHANGED <<ait, bit, loc, calls, extra>> /\ Frame

\* while (element.done !== true) { yield prev.value;
initial_while ==
    /\ Running("initial") /\ pc = "while"
    /\ IF loc.element.done
       THEN ReturnGen /\ pc' = "end"
       ELSE Yield(loc.prev.value) /\ pc' = "shift"
    /\ UNCHANGED <<ait, bit, loc, calls, extra>> /\ Frame

\* prev = element; element = await iterator.next(); }
initial_shift ==
    /\ Running("initial") /\ pc = "shift"
    /\ ait' = iteratorNext(ait)
    /\ IF iteratorThrows(ait) THEN ThrowGen("PullError") /\ pc' = "end" /\ loc' = loc
       ELSE /\ Continue /\ pc' = "while"
            /\ loc' = [loc EXCEPT !.prev = loc.element,
                                  !.element = iteratorResult(ait)]
    /\ UNCHANGED <<bit, calls, extra>> /\ Frame

\* ------------------------------------- excludeFirst and removeFirst

\* const iterator = asyncIterator(iterable); let result = await iterator.next();
\* for (let i = 0; ...
excludeFirst_first ==
    /\ Running("excludeFirst") /\ pc = "start"
    /\ ait' = iteratorNext(ait)
    /\ IF iteratorThrows(ait) THEN ThrowGen("PullError") /\ pc' = "end" /\ loc' = loc
       ELSE /\ Continue /\ pc' = "for"
            /\ loc' = [loc EXCEPT !.result = iteratorResult(ait), !.i = 0]
    /\ UNCHANGED <<bit, calls, extra>> /\ Frame

\* the same loop with continue for break: every match is left out
excludeFirst_for_every ==
    /\ Running("excludeFirst") /\ pc = "for"
    /\ IF loc.result.done
       THEN Continue /\ pc' = "skip" /\ calls' = calls
       ELSE /\ calls' = Append(calls, <<loc.result.value, loc.i>>)
            /\ IF CallThrows THEN ThrowGen("CallbackError") /\ pc' = "end"
               ELSE IF passes(loc.result.value, loc.i) THEN Continue /\ pc' = "next"
               ELSE Yield(loc.result.value) /\ pc' = "next"
    /\ UNCHANGED <<ait, bit, loc, extra>> /\ Frame

\* for (...; result.done !== true; ...) {
\*     if (await predicate(result.value, i)) break;
\*     yield result.value;
excludeFirst_for ==
    /\ Running("excludeFirst") /\ pc = "for"
    /\ IF loc.result.done
       THEN Continue /\ pc' = "skip" /\ calls' = calls
       ELSE /\ calls' = Append(calls, <<loc.result.value, loc.i>>)
            /\ IF CallThrows THEN ThrowGen("CallbackError") /\ pc' = "end"
               ELSE IF passes(loc.result.value, loc.i) THEN Continue /\ pc' = "skip"
               ELSE Yield(loc.result.value) /\ pc' = "next"
    /\ UNCHANGED <<ait, bit, loc, extra>> /\ Frame

\*     result = await iterator.next(); }  and ++i
excludeFirst_next ==
    /\ Running("excludeFirst") /\ pc = "next"
    /\ ait' = iteratorNext(ait)
    /\ IF iteratorThrows(ait) THEN ThrowGen("PullError") /\ pc' = "end" /\ loc' = loc
       ELSE /\ Continue /\ pc' = "for"
            /\ loc' = [loc EXCEPT !.result = iteratorResult(ait), !.i = @ + 1]
    /\ UNCHANGED <<bit, calls, extra>> /\ Frame

\* if (result.done !== true) result = await iterator.next();
excludeFirst_skip ==
    /\ Running("excludeFirst") /\ pc = "skip"
    /\ IF loc.result.done
       THEN Continue /\ pc' = "while" /\ ait' = ait /\ loc' = loc
       ELSE /\ ait' = iteratorNext(ait)
            /\ IF iteratorThrows(ait)
               THEN ThrowGen("PullError") /\ pc' = "end" /\ loc' = loc
               ELSE /\ Continue /\ pc' = "while"
                    /\ loc' = [loc EXCEPT !.result = iteratorResult(ait)]
    /\ UNCHANGED <<bit, calls, extra>> /\ Frame

\* while (result.done !== true) { yield result.value;
excludeFirst_while ==
    /\ Running("excludeFirst") /\ pc = "while"
    /\ IF loc.result.done
       THEN ReturnGen /\ pc' = "end"
       ELSE Yield(loc.result.value) /\ pc' = "rest"
    /\ UNCHANGED <<ait, bit, loc, calls, extra>> /\ Frame

\*     result = await iterator.next(); }
excludeFirst_rest ==
    /\ Running("excludeFirst") /\ pc = "rest"
    /\ ait' = iteratorNext(ait)
    /\ IF iteratorThrows(ait) THEN ThrowGen("PullError") /\ pc' = "end" /\ loc' = loc
       ELSE /\ Continue /\ pc' = "while"
            /\ loc' = [loc EXCEPT !.result = iteratorResult(ait)]
    /\ UNCHANGED <<bit, calls, extra>> /\ Frame

\* ------------------------------------------- dropWhile and dropUntil

\* const iterator = asyncIterator(iterable); let result = await iterator.next();
\* for (let i = 0; ...
dropWhile_first ==
    /\ Running("dropWhile") /\ pc = "start"
    /\ ait' = iteratorNext(ait)
    /\ IF iteratorThrows(ait) THEN ThrowGen("PullError") /\ pc' = "end" /\ loc' = loc
       ELSE /\ Continue /\ pc' = "for"
            /\ loc' = [loc EXCEPT !.result = iteratorResult(ait), !.i = 0]
    /\ UNCHANGED <<bit, calls, extra>> /\ Frame

\* for (...; result.done !== true && (await predicate(result.value, i)); ...)
dropWhile_for ==
    /\ Running("dropWhile") /\ pc = "for"
    /\ IF loc.result.done
       THEN Continue /\ pc' = "while" /\ calls' = calls
       ELSE /\ calls' = Append(calls, <<loc.result.value, loc.i>>)
            /\ IF CallThrows THEN ThrowGen("CallbackError") /\ pc' = "end"
               ELSE IF passes(loc.result.value, loc.i) THEN Continue /\ pc' = "skip"
               ELSE Continue /\ pc' = "while"
    /\ UNCHANGED <<ait, bit, loc, extra>> /\ Frame

\* { result = await iterator.next(); }  and ++i
dropWhile_skip ==
    /\ Running("dropWhile") /\ pc = "skip"
    /\ ait' = iteratorNext(ait)
    /\ IF iteratorThrows(ait) THEN ThrowGen("PullError") /\ pc' = "end" /\ loc' = loc
       ELSE /\ Continue /\ pc' = "for"
            /\ loc' = [loc EXCEPT !.result = iteratorResult(ait), !.i = @ + 1]
    /\ UNCHANGED <<bit, calls, extra>> /\ Frame

\* while (result.done !== true) { yield result.value;
dropWhile_while ==
    /\ Running("dropWhile") /\ pc = "while"
    /\ IF loc.result.done
       THEN ReturnGen /\ pc' = "end"
       ELSE Yield(loc.result.value) /\ pc' = "rest"
    /\ UNCHANGED <<ait, bit, loc, calls, extra>> /\ Frame

\* a second loop that goes back to the first: the predicate is asked about
\* every element
dropWhile_rest_again ==
    /\ Running("dropWhile") /\ pc = "rest"
    /\ ait' = iteratorNext(ait)
    /\ IF iteratorThrows(ait) THEN ThrowGen("PullError") /\ pc' = "end" /\ loc' = loc
       ELSE /\ Continue /\ pc' = "for"
            /\ loc' = [loc EXCEPT !.result = iteratorResult(ait), !.i = @ + 1]
    /\ UNCHANGED <<bit, calls, extra>> /\ Frame

\*     result = await iterator.next(); }
dropWhile_rest ==
    /\ Running("dropWhile") /\ pc = "rest"
    /\ ait' = iteratorNext(ait)
    /\ IF iteratorThrows(ait) THEN ThrowGen("PullError") /\ pc' = "end" /\ loc' = loc
       ELSE /\ Continue /\ pc' = "while"
            /\ loc' = [loc EXCEPT !.result = iteratorResult(ait)]
    /\ UNCHANGED <<bit, calls, extra>> /\ Frame

\* ------------------------------------ concat, prepend and append

\* for await (const iterable of await iterables) {
concat_outer ==
    /\ Running("concat") /\ pc \in {"start", "outer"}
    /\ ait' = forAwaitNext(ait)
    /\ IF forAwaitThrows(ait) THEN ThrowGen("PullError") /\ pc' = "end" /\ bit' = bit
       ELSE IF forAwaitResult(ait).done THEN ReturnGen /\ pc' = "end" /\ bit' = bit
       ELSE /\ Continue /\ pc' = "inner"
            /\ bit' = Cursor(forAwaitResult(ait).value, 0)
    /\ UNCHANGED <<loc, calls, extra>> /\ Frame

\* an inner loop that leaves at the first element it has yielded
concat_inner_once ==
    /\ Running("concat") /\ pc = "inner"
    /\ IF bit.pos >= 1
       THEN /\ bit' = forAwaitClose(bit)
            /\ Continue /\ pc' = "outer" /\ loc' = loc
       ELSE /\ bit' = forAwaitNext(bit)
            /\ IF forAwaitThrows(bit) THEN ThrowGen("PullError") /\ pc' = "end" /\ loc' = loc
               ELSE IF forAwaitResult(bit).done THEN Continue /\ pc' = "outer" /\ loc' = loc
               ELSE /\ Continue /\ pc' = "yield"
                    /\ loc' = [loc EXCEPT !.element = forAwaitResult(bit).value]
    /\ UNCHANGED <<ait, calls, extra>> /\ Frame

\*     for await (const element of iterable) {
concat_inner ==
    /\ Running("concat") /\ pc = "inner"
    /\ bit' = forAwaitNext(bit)
    /\ IF forAwaitThrows(bit) THEN ThrowGen("PullError") /\ pc' = "end" /\ loc' = loc
       ELSE IF forAwaitResult(bit).done THEN Continue /\ pc' = "outer" /\ loc' = loc
       ELSE /\ Continue /\ pc' = "yield"
            /\ loc' = [loc EXCEPT !.element = forAwaitResult(bit).value]
    /\ UNCHANGED <<ait, calls, extra>> /\ Frame

\*         yield element;
concat_yield ==
    /\ Running("concat") /\ pc = "yield"
    /\ Yield(loc.element)
    /\ pc' = "inner"
    /\ UNCHANGED <<ait, bit, loc, calls, extra>> /\ Frame

\* --------------------------------------------------- push and unshift

\* for await (const element of await iterable) {
push_next ==
    /\ Running("push") /\ pc \in {"start", "for"}
    /\ ait' = forAwaitNext(ait)
    /\ IF forAwaitThrows(ait) THEN ThrowGen("PullError") /\ pc' = "end" /\ loc' = loc
       ELSE IF forAwaitResult(ait).done THEN Continue /\ pc' = "value" /\ loc' = loc
       ELSE /\ Continue /\ pc' = "yield"
            /\ loc' = [loc EXCEPT !.element = forAwaitResult(ait).value]
    /\ UNCHANGED <<bit, calls, extra>> /\ Frame

\*     yield element;
push_yield ==
    /\ Running("push") /\ pc = "yield"
    /\ Yield(loc.element)
    /\ pc' = "for"
    /\ UNCHANGED <<ait, bit, loc, calls, extra>> /\ Frame

\* yield await value;
push_value ==
    /\ Running("push") /\ pc = "value"
    /\ Yield(arg.value)
    /\ pc' = "return"
    /\ UNCHANGED <<ait, bit, loc, calls, extra>> /\ Frame

\* the end of the body
push_return ==
    /\ Running("push") /\ pc = "return"
    /\ ReturnGen
    /\ pc' = "end"
    /\ UNCHANGED <<ait, bit, loc, calls, extra>> /\ Frame

\* a first step that pulls the source before it yields the value
unshift_value_pulling ==
    /\ Running("unshift") /\ pc = "start"
    /\ ait' = forAwaitNext(ait)
    /\ Yield(arg.value)
    /\ pc' = "for"
    /\ UNCHANGED <<bit, loc, calls, extra>> /\ Frame

\* yield await value;
unshift_value ==
    /\ Running("unshift") /\ pc = "start"
    /\ Yield(arg.value)
    /\ pc' = "for"
    /\ UNCHANGED <<ait, bit, loc, calls, extra>> /\ Frame

\* for await (const element of await iterable) {
unshift_next ==
    /\ Running("unshift") /\ pc = "for"
    /\ ait' = forAwaitNext(ait)
    /\ IF forAwaitThrows(ait) THEN ThrowGen("PullError") /\ pc' = "end" /\ loc' = loc
       ELSE IF forAwaitResult(ait).done THEN ReturnGen /\ pc' = "end" /\ loc' = loc
       ELSE /\ Continue /\ pc' = "yield"
            /\ loc' = [loc EXCEPT !.element = forAwaitResult(ait).value]
    /\ UNCHANGED <<bit, calls, extra>> /\ Frame

\*     yield element;
unshift_yield ==
    /\ Running("unshift") /\ pc = "yield"
    /\ Yield(loc.element)
    /\ pc' = "for"
    /\ UNCHANGED <<ait, bit, loc, calls, extra>> /\ Frame

\* ------------------------------------------------- first, empty, notEmpty

\* a return that leaves the loop without closing the source's iterator
first_next_open ==
    /\ Running("first") /\ pc = "start"
    /\ IF forAwaitThrows(ait) THEN Throw("PullError") /\ ait' = forAwaitNext(ait)
       ELSE IF forAwaitResult(ait).done THEN Return(null) /\ ait' = forAwaitNext(ait)
       ELSE Return(forAwaitResult(ait).value) /\ ait' = forAwaitNext(ait)
    /\ pc' = "end"
    /\ UNCHANGED <<bit, loc, calls, extra>> /\ Frame

\* for await (const element of await iterable) { return element; } return null;
first_next ==
    /\ Running("first") /\ pc = "start"
    /\ IF forAwaitThrows(ait) THEN Throw("PullError") /\ ait' = forAwaitNext(ait)
       ELSE IF forAwaitResult(ait).done THEN Return(null) /\ ait' = forAwaitNext(ait)
       ELSE Return(forAwaitResult(ait).value) /\ ait' = forAwaitClose(forAwaitNext(ait))
    /\ pc' = "end"
    /\ UNCHANGED <<bit, loc, calls, extra>> /\ Frame

\* what empty and notEmpty make of done === true
emptied(done) == IF Op = "notEmpty" THEN ~done ELSE done

\* return (await asyncIterator(iterable).next()).done === true;
empty_next ==
    /\ Running("empty") /\ pc = "start"
    /\ ait' = iteratorNext(ait)
    /\ IF iteratorThrows(ait) THEN Throw("PullError")
       ELSE Return(emptied(iteratorResult(ait).done))
    /\ pc' = "end"
    /\ UNCHANGED <<bit, loc, calls, extra>> /\ Frame

\* ------------------------------------------------ contains and indexOf

\* for await (const element of await iterable) {
\*     if (element === value) return true;  (indexOf: return i;)  ++i; }
\* return false;  (indexOf: return null;)
contains_next ==
    /\ Op \in {"contains", "indexOf"} /\ ret = Pending /\ pc \in {"start", "for"}
    /\ IF forAwaitThrows(ait)
       THEN Throw("PullError") /\ pc' = "end" /\ loc' = loc /\ ait' = forAwaitNext(ait)
       ELSE IF forAwaitResult(ait).done
       THEN /\ Return(IF Op = "contains" THEN FALSE ELSE null)
            /\ pc' = "end" /\ loc' = loc /\ ait' = forAwaitNext(ait)
       ELSE IF forAwaitResult(ait).value = arg.value
       THEN /\ Return(IF Op = "contains" THEN TRUE ELSE loc.i)
            /\ pc' = "end" /\ loc' = loc /\ ait' = forAwaitClose(forAwaitNext(ait))
       ELSE /\ Continue /\ pc' = "for" /\ ait' = forAwaitNext(ait)
            /\ loc' = [loc EXCEPT !.i = @ + 1]
    /\ UNCHANGED <<bit, calls, extra>> /\ Frame

\* ----------------------------------- findIndex, and, or, any and all

\* every wrapper testing != null
wrapped_alike(r) ==
    CASE Op \in {"and", "all", "or", "any"} -> r # null
      [] OTHER -> r

\* what the wrapper makes of the result of findIndex: and and all test
\* == null, or and any != null
wrapped(r) ==
    CASE Op \in {"and", "all"} -> r = null
      [] Op \in {"or", "any"} -> r # null
      [] OTHER -> r

\* let i = 0; for await (const element of await iterable) {  ... return null;
findIndex_next ==
    /\ Running("findIndex") /\ pc \in {"start", "for"}
    /\ ait' = forAwaitNext(ait)
    /\ IF forAwaitThrows(ait) THEN Throw("PullError") /\ pc' = "end" /\ loc' = loc
       ELSE IF forAwaitResult(ait).done THEN Return(wrapped(null)) /\ pc' = "end" /\ loc' = loc
       ELSE /\ loc' = [loc EXCEPT !.element = forAwaitResult(ait).value]
            /\ pc' = "call"
            /\ Continue
    /\ UNCHANGED <<bit, calls, extra>> /\ Frame

\* if (await predicate(element, i)) return i;  ++i;
findIndex_call ==
    /\ Running("findIndex") /\ pc = "call"
    /\ calls' = Append(calls, <<loc.element, loc.i>>)
    /\ IF CallThrows
       THEN Throw("CallbackError") /\ pc' = "end" /\ ait' = forAwaitClose(ait) /\ loc' = loc
       ELSE IF passes(loc.element, loc.i)
       THEN Return(wrapped(loc.i)) /\ pc' = "end" /\ ait' = forAwaitClose(ait) /\ loc' = loc
       ELSE /\ Continue /\ pc' = "for" /\ ait' = ait
            /\ loc' = [loc EXCEPT !.i = @ + 1]
    /\ UNCHANGED <<bit, extra>> /\ Frame

\* ------------------------------------------------------------ noneNull

\* a loop that notes a null element and goes on to the end of the source
noneNull_next_on ==
    /\ Running("noneNull") /\ pc \in {"start", "for"}
    /\ ait' = forAwaitNext(ait)
    /\ IF forAwaitThrows(ait) THEN Throw("PullError") /\ pc' = "end" /\ loc' = loc
       ELSE IF forAwaitResult(ait).done
       THEN /\ Return(IF loc.i = 1 THEN null
                      ELSE IF pc = "start" THEN <<>> ELSE loc.result)
            /\ pc' = "end" /\ loc' = loc
       ELSE /\ Continue /\ pc' = "for"
            /\ loc' = IF forAwaitResult(ait).value = null
                      THEN [loc EXCEPT !.i = 1,
                                       !.result = IF pc = "start" THEN <<>> ELSE @]
                      ELSE [loc EXCEPT !.result =
                               Append(IF pc = "start" THEN <<>> ELSE @,
                                      forAwaitResult(ait).value)]
    /\ UNCHANGED <<bit, calls, extra>> /\ Frame

\* const result: T[] = []; for await (const element of await iterable) {
\*     if (element == null) return null;  result.push(element); }
\* return result;
noneNull_next ==
    /\ Running("noneNull") /\ pc \in {"start", "for"}
    /\ IF forAwaitThrows(ait)
       THEN Throw("PullError") /\ pc' = "end" /\ loc' = loc /\ ait' = forAwaitNext(ait)
       ELSE IF forAwaitResult(ait).done
       THEN /\ Return(IF pc = "start" THEN <<>> ELSE loc.result)
            /\ pc' = "end" /\ loc' = loc /\ ait' = forAwaitNext(ait)
       ELSE IF forAwaitResult(ait).value = null
       THEN /\ Return(null)
            /\ pc' = "end" /\ loc' = loc /\ ait' = forAwaitClose(forAwaitNext(ait))
       ELSE /\ Continue /\ pc' = "for" /\ ait' = forAwaitNext(ait)
            /\ loc' = [loc EXCEPT !.result =
                          Append(IF pc = "start" THEN <<>> ELSE @,
                                 forAwaitResult(ait).value)]
    /\ UNCHANGED <<bit, calls, extra>> /\ Frame

\* -------------------------------------------------------------- scan1

\* const iterator = asyncIterator(iterable); let result = await iterator.next();
\* if (result.done === true) return;  let accumulator = result.value;
scan1_first ==
    /\ Running("scan1") /\ pc = "start"
    /\ ait' = iteratorNext(ait)
    /\ IF iteratorThrows(ait) THEN ThrowGen("PullError") /\ pc' = "end" /\ loc' = loc
       ELSE IF iteratorResult(ait).done THEN ReturnGen /\ pc' = "end" /\ loc' = loc
       ELSE /\ Continue /\ pc' = "first"
            /\ loc' = [loc EXCEPT !.accumulator = iteratorResult(ait).value]
    /\ UNCHANGED <<bit, calls, extra>> /\ Frame

\* yield accumulator; let i = 1;
scan1_yield_first ==
    /\ Running("scan1") /\ pc = "first"
    /\ Yield(loc.accumulator)
    /\ loc' = [loc EXCEPT !.i = 1]
    /\ pc' = "next"
    /\ UNCHANGED <<ait, bit, calls, extra>> /\ Frame

\* result = await iterator.next();  (before the loop and ending its body)
scan1_next ==
    /\ Running("scan1") /\ pc = "next"
    /\ ait' = iteratorNext(ait)
    /\ IF iteratorThrows(ait) THEN ThrowGen("PullError") /\ pc' = "end" /\ loc' = loc
       ELSE /\ Continue /\ pc' = "while"
            /\ loc' = [loc EXCEPT !.result = iteratorResult(ait)]
    /\ UNCHANGED <<bit, calls, extra>> /\ Frame

\* while (result.done !== true) { ... accumulator = await f(accumulator, result.value, i++)
scan1_while ==
    /\ Running("scan1") /\ pc = "while"
    /\ IF loc.result.done
       THEN ReturnGen /\ pc' = "end" /\ UNCHANGED <<loc, calls>>
       ELSE /\ calls' = Append(calls, <<loc.accumulator, loc.result.value, loc.i>>)
            /\ IF CallThrows
               THEN /\ ThrowGen("CallbackError") /\ pc' = "end"
                    /\ loc' = [loc EXCEPT !.i = @ + 1]
               ELSE /\ Continue /\ pc' = "yield"
                    /\ loc' = [loc EXCEPT !.i = @ + 1,
                                   !.accumulator = f3(loc.accumulator, loc.result.value, loc.i)]
    /\ UNCHANGED <<ait, bit, extra>> /\ Frame

\* yield (accumulator = ...);
scan1_yield ==
    /\ Running("scan1") /\ pc = "yield"
    /\ Yield(loc.accumulator)
    /\ pc' = "next"
    /\ UNCHANGED <<ait, bit, loc, calls, extra>> /\ Frame

\* ------------------------------------------------------ specification

Swapped(o) == [op |-> o, swap |-> TRUE]

Plans ==
    { <<Step("take"), Step("drop"), Step("asyncIterable")>>,
      <<Step("only")>>,
      <<Step("equal"), Step("notEqual"), Swapped("equal")>>,
      <<Step("prefixMatch")>>,
      <<Step("fold")>>,
      <<Step("fold1")>>,
      <<Step("index")>>,
      <<Step("maximumBy"), Step("minimumBy")>>,
      <<Step("map")>>,
      <<Step("filter")>>,
      <<Step("takeWhile")>>,
      <<Step("scan")>>,
      <<Step("find")>> }

\* the inputs an operation reads; the others keep their default
UsesCount(o) == o \in {"take", "index"}
UsesInitial(o) == o \in {"fold", "scan"}
UsesB(o) == o \in {"equal", "prefixMatch", "prepend"}
UsesValue(o) == o \in {"remove", "removeFirst", "push", "unshift", "contains"}
UsesNested(o) == o = "concat"
\* the sources an operation is run on: sequences of booleans for and and or,
\* of elements that may be null for noneNull
SourcesOf(o) ==
    IF o \in {"and", "or"} THEN SeqsOver(BOOLEAN)
    ELSE IF o = "noneNull" THEN SeqsOver({null, 1, 2})
    ELSE Seqs
CallbacksOf(o) ==
    CASE o \in {"equal", "prefixMatch"} -> EqualFns
      [] o \in {"fold", "fold1", "scan", "scan1"} -> FoldFns
      [] o \in {"map"} -> MapFns
      [] o \in {"filter", "takeWhile", "find", "dropWhile", "excludeFirst", "findIndex"} ->
            Predicates
      [] o \in {"maximumBy"} -> Selects
      [] o \in {"maximum"} -> KeyFns
      [] OTHER -> {"none"}
\* the operations run with a failing pull or a failing callback
MayFail(o) == ~UsesB(o) /\ ~UsesNested(o)

\* the initial states that run a plan of P
InitOver(P) ==
    /\ \E p \in P :
       \E a \in (IF UsesB(p[1].op) THEN SeqsOver(PairValues)
                 ELSE IF UsesNested(p[1].op) THEN {<<>>}
                 ELSE SourcesOf(p[1].op)),
          b \in (IF UsesB(p[1].op) THEN SeqsOver(PairValues) ELSE {<<>>}),
          n \in (IF UsesCount(p[1].op) THEN Numbers ELSE {Num(0)}),
          init \in (IF UsesInitial(p[1].op) THEN Initials ELSE {0}),
          fp \in (IF MayFail(p[1].op) THEN 0..(MaxLen + 1) ELSE {0}),
          fc \in (IF MayFail(p[1].op) /\ CallbacksOf(p[1].op) # {"none"}
                  THEN 0..MaxLen ELSE {0}) :
        /\ fp <= Len(a) + 1 /\ fc <= Len(a)
        /\ (fp = 0 \/ fc = 0)
        /\ plan = p
        /\ \E fn \in CallbacksOf(p[1].op),
              v \in (IF UsesValue(p[1].op) THEN Values ELSE {1}),
              nn \in (IF UsesNested(p[1].op) THEN NestedSeqs ELSE {<<>>}) :
              /\ arg = [a |-> a, b |-> b, count |-> n, initial |-> init, fn |-> fn,
                        value |-> v, nested |-> nn,
                        failPull |-> fp, failCall |-> fc]
              /\ ait = Cursor(FirstSource(p[1].op, a, b, nn), fp)
        /\ bit = Cursor(SecondSource(p[1].op, b), 0)
        /\ gen = IF IsLazy(p[1].op) THEN "suspendedStart" ELSE "none"
    /\ run = 1
    /\ hist = <<>>
    /\ pc = "start"
    /\ loc = Locals
    /\ out = <<>>
    /\ ret = Pending
    /\ calls = <<>>
    /\ extra = 0

Init == InitOver(Plans)

Next ==
    \/ NextRun
    \/ ConsumerNext
    \/ NextAfterDone
    \/ asyncIterable_next
    \/ asyncIterable_yield
    \/ take_count
    \/ take_next
    \/ take_yield
    \/ take_check
    \/ drop_count
    \/ drop_first
    \/ drop_skip
    \/ drop_yield
    \/ drop_next
    \/ only_first
    \/ only_second
    \/ equal_a
    \/ equal_b
    \/ equal_while
    \/ prefixMatch_a
    \/ prefixMatch_b
    \/ prefixMatch_while
    \/ map_next
    \/ map_call
    \/ map_yield
    \/ filter_next
    \/ filter_call
    \/ filter_yield
    \/ takeWhile_next
    \/ takeWhile_call
    \/ takeWhile_yield
    \/ takeWhile_incr
    \/ scan_start
    \/ scan_next
    \/ scan_call
    \/ scan_yield
    \/ fold_start
    \/ fold_next
    \/ fold_call
    \/ fold1_first
    \/ fold1_next
    \/ fold1_while
    \/ index_check
    \/ index_next
    \/ find_next
    \/ find_call
    \/ maximumBy_first
    \/ maximumBy_select
    \/ maximumBy_next
    \/ maximumBy_while

Spec == Init /\ [][Next]_vars

\* the plans of the second specification: the operations that select or
\* rearrange elements
Plans2 ==
    { <<Step("maximum"), Step("minimum"), Step("maximumBy"), Step("minimumBy")>>,
      <<Step("initial")>>,
      <<Step("tail")>>,
      <<Step("excludeFirst")>>,
      <<Step("removeFirst")>>,
      <<Step("filter"), Step("exclude"), Step("excludeFn"), Step("asyncExcludeFn")>>,
      <<Step("remove")>>,
      <<Step("takeWhile"), Step("takeUntil")>>,
      <<Step("dropWhile"), Step("dropUntil")>>,
      <<Step("concat")>>,
      <<Step("prepend"), Swapped("append")>>,
      <<Step("push")>>,
      <<Step("unshift")>> }

Init2 == InitOver(Plans2)

Next2 ==
    \/ NextRun
    \/ ConsumerNext
    \/ NextAfterDone
    \/ initial_prev
    \/ initial_element
    \/ initial_while
    \/ initial_shift
    \/ tail_first
    \/ tail_next
    \/ tail_while
    \/ excludeFirst_first
    \/ excludeFirst_for
    \/ excludeFirst_next
    \/ excludeFirst_skip
    \/ excludeFirst_while
    \/ excludeFirst_rest
    \/ filter_next
    \/ filter_call
    \/ filter_yield
    \/ takeWhile_next
    \/ takeWhile_call
    \/ takeWhile_yield
    \/ takeWhile_incr
    \/ dropWhile_first
    \/ dropWhile_for
    \/ dropWhile_skip
    \/ dropWhile_while
    \/ dropWhile_rest
    \/ concat_outer
    \/ concat_inner
    \/ concat_yield
    \/ push_next
    \/ push_yield
    \/ push_value
    \/ push_return
    \/ unshift_value
    \/ unshift_next
    \/ unshift_yield
    \/ internalMaximum_first
    \/ internalMaximum_next
    \/ internalMaximum_while
    \/ maximumBy_first
    \/ maximumBy_select
    \/ maximumBy_next
    \/ maximumBy_while
    \/ asyncExcludeFn_apply

Spec2 == Init2 /\ [][Next2]_vars

\* the plans of the third specification: the operations that consume a
\* sequence up to a deciding element
Plans3 ==
    { <<Step("findIndex"), Step("any"), Step("all")>>,
      <<Step("and"), Step("or")>>,
      <<Step("contains"), Step("indexOf")>>,
      <<Step("find")>>,
      <<Step("index")>>,
      <<Step("noneNull")>>,
      <<Step("first"), Step("empty"), Step("notEmpty")>> }

Init3 == InitOver(Plans3)

Next3 ==
    \/ NextRun
    \/ first_next
    \/ empty_next
    \/ contains_next
    \/ findIndex_next
    \/ findIndex_call
    \/ noneNull_next
    \/ find_next
    \/ find_call
    \/ index_check
    \/ index_next

Spec3 == Init3 /\ [][Next3]_vars

\* the specification of every operation modelled: the plans of the three
\* above, and scan1
PlansAll == Plans \cup Plans2 \cup Plans3 \cup {<<Step("scan1")>>}

InitAll == InitOver(PlansAll)

NextAll ==
    \/ NextRun
    \/ ConsumerNext
    \/ NextAfterDone
    \/ asyncIterable_next
    \/ asyncIterable_yield
    \/ take_count
    \/ take_next
    \/ take_yield
    \/ take_check
    \/ drop_count
    \/ drop_first
    \/ drop_skip
    \/ drop_yield
    \/ drop_next
    \/ only_first
    \/ only_second
    \/ equal_a
    \/ equal_b
    \/ equal_while
    \/ prefixMatch_a
    \/ prefixMatch_b
    \/ prefixMatch_while
    \/ map_next
    \/ map_call
    \/ map_yield
    \/ filter_next
    \/ filter_call
    \/ filter_yield
    \/ takeWhile_next
    \/ takeWhile_call
    \/ takeWhile_yield
    \/ takeWhile_incr
    \/ scan_start
    \/ scan_next
    \/ scan_call
    \/ scan_yield
    \/ fold_start
    \/ fold_next
    \/ fold_call
    \/ fold1_first
    \/ fold1_next
    \/ fold1_while
    \/ index_check
    \/ index_next
    \/ find_next
    \/ find_call
    \/ maximumBy_first
    \/ maximumBy_select
    \/ maximumBy_next
    \/ maximumBy_while
    \/ initial_prev
    \/ initial_element
    \/ initial_while
    \/ initial_shift
    \/ tail_first
    \/ tail_next
    \/ tail_while
    \/ excludeFirst_first
    \/ excludeFirst_for
    \/ excludeFirst_next
    \/ excludeFirst_skip
    \/ excludeFirst_while
    \/ excludeFirst_rest
    \/ dropWhile_first
    \/ dropWhile_for
    \/ dropWhile_skip
    \/ dropWhile_while
    \/ dropWhile_rest
    \/ concat_outer
    \/ concat_inner
    \/ concat_yield
    \/ push_next
    \/ push_yield
    \/ push_value
    \/ push_return
    \/ unshift_value
    \/ unshift_next
    \/ unshift_yield
    \/ internalMaximum_first
    \/ internalMaximum_next
    \/ internalMaximum_while
    \/ first_next
    \/ empty_next
    \/ contains_next
    \/ findIndex_next
    \/ findIndex_call
    \/ noneNull_next
    \/ scan1_first
    \/ scan1_yield_first
    \/ scan1_next
    \/ scan1_while
    \/ scan1_yield
    \/ asyncExcludeFn_apply

SpecAll == InitAll /\ [][NextAll]_vars

\* ------------------------------------------------------------ claims

\* the count argument as an integer, and the length of the source
K == arg.count.twice \div 2
N == Len(arg.a)

NoFailure == arg.failPull = 0 /\ arg.failCall = 0

TakeDropPlan == plan = <<Step("take"), Step("drop"), Step("asyncIterable")>>

\* C1: for a source S of length n and an integer count k >= 0,
\* toArray(take(S, k)) is the first min(k, n) elements of S in order,
\* toArray(drop(S, k)) is the remaining max(0, n - k) elements in order, and
\* the first followed by the second is toArray(S).
C1_TakeDropSplit ==
    (TakeDropPlan /\ IsCount(arg.count) /\ NoFailure /\ ret.state = "fulfilled") =>
        /\ Op = "take" =>
              /\ Len(ret.value) = Min(K, N)
              /\ ret.value = SubSeq(arg.a, 1, Min(K, N))
        /\ Op = "drop" =>
              /\ Len(ret.value) = Max(0, N - K)
              /\ ret.value = SubSeq(arg.a, Min(K, N) + 1, N)
        /\ Op = "asyncIterable" =>
              /\ ret.value = arg.a
              /\ hist[1].op = "take" /\ hist[2].op = "drop"
              /\ hist[1].ret.value \o hist[2].ret.value = ret.value

\* C1 witness: all three have run with 0 < k < n, both parts non-empty
C1_Witness ==
    /\ TakeDropPlan /\ IsCount(arg.count) /\ NoFailure
    /\ run = 3 /\ ret.state = "fulfilled"
    /\ 0 < K /\ K < N
    /\ Len(hist[1].ret.value) = K
    /\ Len(hist[2].ret.value) = N - K

\* C2: however often the sequence take(S, n) is pulled, also after it has
\* signalled exhaustion, at most n pulls are issued on S (n an integer
\* >= 0); for n = 0 none is.
C2_TakePullsAtMostN ==
    (Op = "take" /\ IsCount(arg.count)) =>
        /\ ait.srcPulls <= K
        /\ ait.pulls <= K

\* C2 witness: take(S, n) with 0 < n < length(S) has completed after n pulls
\* on S and has been pulled again since
C2_Witness ==
    /\ Op = "take" /\ IsCount(arg.count)
    /\ 0 < K /\ K < N
    /\ gen = "completed" /\ extra = MaxExtra
    /\ ait.srcPulls = K


\* C3: only(S) returns the sole element iff S has exactly one element and
\* null otherwise, the empty S included; it issues at most two pulls on S,
\* exactly one when S is empty, and never a third.
C3_Only ==
    Op = "only" =>
        /\ ait.pulls <= 2 /\ ait.srcPulls <= 2
        /\ (ret # Pending /\ N = 0) => ait.pulls = 1
        /\ ret.state = "fulfilled" =>
              /\ N = 1 => ret.value = arg.a[1]
              /\ N # 1 => ret.value = null
              /\ ret.value # null => (N = 1 /\ ret.value = arg.a[1])

\* C3 witness: only has answered null for a source of three elements after
\* two pulls
C3_Witness ==
    /\ Op = "only" /\ N = 3 /\ NoFailure
    /\ ret = Fulfilled(null)
    /\ ait.pulls = 2

EqualPlan == plan = <<Step("equal"), Step("notEqual"), Swapped("equal")>>

\* eq holds at every position both sequences have
PairwiseEqual(a, b) ==
    \A k \in 1..Min(Len(a), Len(b)) : elementsEqual(a[k], b[k])

Reflexive == \A x \in Values : elementsEqual(x, x)
Symmetric == \A x, y \in Values : elementsEqual(x, y) = elementsEqual(y, x)

\* C4: equal(A, B, eq) is true iff A and B have the same length and eq holds
\* at every common position: true for identical contents, false whenever
\* the lengths differ, equal(B, A) = equal(A, B) when eq is symmetric; and
\* notEqual(A, B, eq) is the negation of equal(A, B, eq).
C4_Equal ==
    (EqualPlan /\ ret.state = "fulfilled") =>
        /\ run = 1 =>
              /\ ret.value = (Len(arg.a) = Len(arg.b) /\ PairwiseEqual(arg.a, arg.b))
              /\ (arg.a = arg.b /\ Reflexive) => ret.value = TRUE
              /\ Len(arg.a) # Len(arg.b) => ret.value = FALSE
        /\ run = 2 => ret.value = ~hist[1].ret.value
        /\ (run = 3 /\ Symmetric) => ret.value = hist[1].ret.value

\* C4 witness: equal, notEqual and the swapped equal have all answered, for
\* two sources of different lengths that agree where both have an element
C4_Witness ==
    /\ EqualPlan /\ run = 3 /\ ret.state = "fulfilled"
    /\ Len(arg.a) = 3 /\ Len(arg.b) = 2
    /\ PairwiseEqual(arg.a, arg.b) /\ Symmetric
    /\ hist[1].ret = Fulfilled(FALSE) /\ hist[2].ret = Fulfilled(TRUE)

\* C5: prefixMatch(A, B, eq) is true iff length(B) <= length(A) and eq holds
\* for A[i], B[i] at every position of B; so it is true whenever B is empty
\* and false when A is exhausted before B.
C5_PrefixMatch ==
    (Op = "prefixMatch" /\ ret.state = "fulfilled") =>
        /\ ret.value =
              (/\ Len(arg.b) <= Len(arg.a)
               /\ \A k \in 1..Len(arg.b) : k <= Len(arg.a) /\ elementsEqual(arg.a[k], arg.b[k]))
        /\ arg.b = <<>> => ret.value = TRUE
        /\ Len(arg.a) < Len(arg.b) => ret.value = FALSE

\* C5 witness: prefixMatch has answered true for a B shorter than A, not
\* empty
C5_Witness ==
    /\ Op = "prefixMatch" /\ ret = Fulfilled(TRUE)
    /\ 0 < Len(arg.b) /\ Len(arg.b) < Len(arg.a)


\* the accumulator after folding s[from..to] into acc, the element at
\* position k (from 1) taken with index k - 1
RECURSIVE FoldTo(_, _, _, _)
FoldTo(acc, s, from, to) ==
    IF to < from THEN acc
    ELSE f3(FoldTo(acc, s, from, to - 1), s[to], to - 1)

\* C6: fold1(S, f) on an empty S fails with the empty-sequence error and
\* never returns a value; on a non-empty S the first element seeds the
\* accumulator without a call of f, f(accumulator, element, index) is then
\* called once per remaining element, in order, with index 1 for the second
\* element, 2 for the third, ..., and the last accumulator is returned:
\* fold1([1,2,3], (a,e,i) => a + e*i) = 9.
C6_Fold1 ==
    Op = "fold1" =>
        /\ N = 0 => ret.state # "fulfilled"
        /\ (N = 0 /\ NoFailure /\ ret # Pending) =>
              ret = Rejected("TypeError: fold1: empty AsyncIterable")
        /\ N > 0 => (ret.state = "rejected" => ~NoFailure)
        /\ \A j \in 1..Len(calls) :
              j < N /\ calls[j] = <<FoldTo(arg.a[1], arg.a, 2, j), arg.a[j + 1], j>>
        /\ ret.state = "fulfilled" =>
              /\ Len(calls) = N - 1
              /\ ret.value = FoldTo(arg.a[1], arg.a, 2, N)
              /\ (arg.a = <<1, 2, 3>> /\ arg.fn = "weighted") => ret.value = 9

\* C6 witness: fold1([1,2,3], (a,e,i) => a + e*i) has returned after two
\* calls of f
C6_Witness ==
    /\ Op = "fold1" /\ arg.a = <<1, 2, 3>> /\ arg.fn = "weighted" /\ NoFailure
    /\ ret = Fulfilled(9)
    /\ calls = <<(<<1, 2, 1>>), (<<3, 3, 2>>)>>

\* C7: fold(S, f, init) calls f(accumulator, element, index) exactly once per
\* element of S, in order, with index 0, 1, ..., n-1, each call receiving the
\* result of the one before (init for the first), and returns the last
\* result; for an empty S it returns init without calling f.
C7_Fold ==
    Op = "fold" =>
        /\ \A j \in 1..Len(calls) :
              j <= N /\ calls[j] = <<FoldTo(arg.initial, arg.a, 1, j - 1), arg.a[j], j - 1>>
        /\ ret.state = "fulfilled" =>
              /\ Len(calls) = N
              /\ ret.value = FoldTo(arg.initial, arg.a, 1, N)
              /\ N = 0 => (ret.value = arg.initial /\ calls = <<>>)

\* C7 witness: fold has returned for a source of three elements and a
\* non-zero initial accumulator, after three calls of f
C7_Witness ==
    /\ Op = "fold" /\ N = 3 /\ arg.initial # 0 /\ NoFailure
    /\ ret.state = "fulfilled"
    /\ Len(calls) = 3 /\ calls[3][3] = 2

\* C8: index(S, i) with i negative, not an integer or not finite (NaN
\* included) fails with the invalid-index error before any pull on S; with
\* i an integer >= 0 it never raises that error and returns the element at
\* position i, or null when i >= length(S).
C8_Index ==
    Op = "index" =>
        /\ ~IsCount(arg.count) =>
              /\ ait.pulls = 0 /\ ait.srcPulls = 0
              /\ ret # Pending => ret = Rejected("RangeError: illegal index")
        /\ IsCount(arg.count) =>
              /\ ret # Rejected("RangeError: illegal index")
              /\ ret.state = "fulfilled" =>
                    ret.value = IF K < N THEN arg.a[K + 1] ELSE null
              /\ (ret # Pending /\ NoFailure) => ret.state = "fulfilled"

\* C8 witness: index(S, 3/2) has failed with the invalid-index error, S not
\* pulled
C8_Witness ==
    /\ Op = "index" /\ arg.count = Fin(3) /\ N = 3
    /\ ret = Rejected("RangeError: illegal index")
    /\ ait.pulls = 0

\* the elements of the source processed before the injected failure
Survivors == IF arg.failPull > 0 THEN arg.failPull - 1 ELSE arg.failCall - 1

\* the injected failure has happened
FailureHit ==
    \/ arg.failPull > 0 /\ ait.srcPulls >= arg.failPull
    \/ arg.failCall > 0 /\ Len(calls) >= arg.failCall

RECURSIVE FilterOut(_)
FilterOut(m) ==
    IF m = 0 THEN <<>>
    ELSE IF predicate(arg.a[m], m - 1) THEN Append(FilterOut(m - 1), arg.a[m])
    ELSE FilterOut(m - 1)

\* what the lazy sequence yields for the first m elements of the source
OutputFor(m) ==
    CASE Op = "asyncIterable" -> SubSeq(arg.a, 1, m)
      [] Op = "map" -> [k \in 1..m |-> f2(arg.a[k], k - 1)]
      [] Op = "filter" -> FilterOut(m)
      [] Op = "takeWhile" -> SubSeq(arg.a, 1, m)
      [] Op = "take" -> SubSeq(arg.a, 1, m)
      [] Op = "scan" -> [k \in 1..m |-> FoldTo(arg.initial, arg.a, 1, k)]

\* the lazy sequences with a closed form of their output, OutputFor
Yielding == {"asyncIterable", "map", "filter", "takeWhile", "scan", "take"}

FailsChecked ==
    Yielding \cup {"drop", "only", "fold", "fold1", "index", "find", "maximumBy", "minimumBy"}

\* the failure has surfaced: the promise of the terminal consumer rejected
\* with it, nothing returned; the failing step made once; what was yielded
\* is what the elements before the failure produce
C9_Surfaced ==
    (Op \in FailsChecked /\ FailureHit) =>
        /\ ret = IF arg.failPull > 0 THEN Rejected("PullError") ELSE Rejected("CallbackError")
        /\ arg.failPull > 0 => ait.srcPulls = arg.failPull
        /\ arg.failCall > 0 => Len(calls) = arg.failCall
        /\ IsLazy(Op) => gen = "completed"
        /\ Op \in Yielding => out = OutputFor(Survivors)

\* once the failure has surfaced nothing more happens in that run: no
\* element yielded, no pull on the source, no callback, the rejection kept
C9_Aborted ==
    (Op \in FailsChecked /\ FailureHit /\ run' = run) =>
        /\ out' = out /\ ret' = ret /\ calls' = calls
        /\ ait'.srcPulls = ait.srcPulls /\ ait'.pulls = ait.pulls

\* C9: when a pull on the source or a user callback fails while a pipeline
\* is driven, the failure surfaces once, at that point: a lazy combinator
\* has yielded exactly the outputs produced before it and yields nothing
\* afterwards, a terminal consumer returns no partial result, no pull is
\* issued on the source after the failing step, and that step is not
\* retried.
C9_FailsOnce == [](C9_Surfaced) /\ [][C9_Aborted]_vars

\* C9 witness: map's callback has failed on the third element, two outputs
\* yielded, and the consumer has pulled again since
C9_Witness ==
    /\ Op = "map" /\ arg.failCall = 3
    /\ ret = Rejected("CallbackError")
    /\ Len(out) = 2 /\ extra > 0

\* C10: maximumBy(S, select) and minimumBy(S, select) invoke select once per
\* element of S, in order, the index passed being the element's zero-based
\* position.
C10_SelectIndex ==
    Op \in {"maximumBy", "minimumBy"} =>
        /\ \A j \in 1..Len(calls) : j <= N /\ calls[j] = <<arg.a[j], j - 1>>
        /\ ret.state = "fulfilled" => Len(calls) = N


\* ------------------------------------------------- C11: maximum, minimum

\* what the comparator or selector of the run orders the elements by
Key(e) == IF arg.fn = "capTwo" THEN Min(e, 2) ELSE e
\* the key, negated when the least element is asked for
Rank(e) == IF Op \in {"minimum", "minimumBy"} THEN 0 - Key(e) ELSE Key(e)
\* the smallest position of S that holds an extremal element
FirstExtremal ==
    CHOOSE i \in 1..N :
        /\ \A j \in 1..N : Rank(arg.a[j]) <= Rank(arg.a[i])
        /\ \A j \in 1..(i - 1) : Rank(arg.a[j]) < Rank(arg.a[i])
ExtremumOps == {"maximum", "minimum", "maximumBy", "minimumBy"}

\* C11: maximum, minimum, and maximumBy and minimumBy with a selector that
\* reads the element only, give null on an empty S; otherwise the result is
\* an element of S, no element of S is strictly greater (for the minimum:
\* strictly less) than it, and of several extremal elements it is the one at
\* the smallest position.
C11_Extremum ==
    (Op \in ExtremumOps /\ arg.fn \in KeyFns /\ ret.state = "fulfilled") =>
        IF N = 0 THEN ret.value = null
        ELSE /\ \E i \in 1..N : arg.a[i] = ret.value
             /\ \A j \in 1..N : Rank(arg.a[j]) <= Rank(ret.value)
             /\ ret.value = arg.a[FirstExtremal]

\* a minimum settled on S where a later, different element is as small as
\* the one returned
C11_Witness ==
    /\ Op = "minimum" /\ arg.fn \in KeyFns /\ ret.state = "fulfilled" /\ N > 0
    /\ \E j \in (FirstExtremal + 1)..N :
          /\ Rank(arg.a[j]) = Rank(arg.a[FirstExtremal])
          /\ arg.a[j] # arg.a[FirstExtremal]


\* ------------------------------------------------------- C12: initial

\* s without its last element
Initial(s) == SubSeq(s, 1, Len(s) - 1)
\* s is a prefix of t
IsPrefix(s, t) == Len(s) <= Len(t) /\ s = SubSeq(t, 1, Len(s))

\* C12: initial yields S without its last element, in order (nothing when S
\* has fewer than two elements); the element at position i is yielded only
\* after the pull for position i + 1 has returned an element, and the last
\* element of S is never yielded.
C12_Initial ==
    Op = "initial" =>
        /\ IsPrefix(out, Initial(arg.a))
        /\ Len(out) >= 1 => ait.pos >= Len(out) + 1
        /\ ret.state = "fulfilled" => ret.value = Initial(arg.a)

\* initial has completed on an S of two or more elements
C12_Witness ==
    /\ Op = "initial" /\ ret.state = "fulfilled" /\ N >= 2
    /\ ret.value = Initial(arg.a) /\ ait.pos = N

\* ---------------------------------------------------------- C13: tail

\* C13: tail yields S without its first element, in order, and nothing when
\* S has fewer than two elements.
C13_Tail ==
    Op = "tail" =>
        /\ IsPrefix(out, IF N = 0 THEN <<>> ELSE Tail(arg.a))
        /\ ret.state = "fulfilled" => ret.value = (IF N = 0 THEN <<>> ELSE Tail(arg.a))

\* tail has completed on an S of two or more elements
C13_Witness ==
    /\ Op = "tail" /\ ret.state = "fulfilled" /\ N >= 2
    /\ ret.value = Tail(arg.a)


\* ---------------------------------- C14: excludeFirst and removeFirst

\* the element at position j of S (counted from 1) satisfies p: the
\* predicate given to excludeFirst, equality with the value given to
\* removeFirst
Matches(j) ==
    IF Op = "removeFirst" THEN arg.a[j] = arg.value ELSE predicate(arg.a[j], j - 1)
\* the position of the first element of S that satisfies p, 0 when none does
FirstMatch ==
    IF \E j \in 1..N : Matches(j)
    THEN CHOOSE j \in 1..N : Matches(j) /\ \A k \in 1..(j - 1) : ~Matches(k)
    ELSE 0
\* S without the element at position j
Without(j) == IF j = 0 THEN arg.a ELSE SubSeq(arg.a, 1, j - 1) \o SubSeq(arg.a, j + 1, N)

\* C14: excludeFirst leaves out exactly the first element that satisfies p
\* and forwards every other element in order, later matches included; p is
\* not invoked after the first match; with no match the output is S.
\* removeFirst does the same with equality to a value.
C14_ExcludeFirst ==
    Op \in {"excludeFirst", "removeFirst"} =>
        /\ IsPrefix(out, Without(FirstMatch))
        /\ ret.state = "fulfilled" => ret.value = Without(FirstMatch)
        /\ Len(calls) <= (IF FirstMatch = 0 THEN N ELSE FirstMatch)
        /\ \A k \in 1..Len(calls) : calls[k] = <<arg.a[k], k - 1>>

\* excludeFirst has completed on an S where a later element matches too, and
\* that element was forwarded
C14_Witness ==
    /\ Op = "excludeFirst" /\ ret.state = "fulfilled"
    /\ FirstMatch >= 1 /\ Len(calls) = FirstMatch
    /\ \E j \in (FirstMatch + 1)..N : Matches(j) /\ ret.value[j - 1] = arg.a[j]


\* ------------------------------------- C15: filter, exclude and remove

\* the operation is to keep the element at position j of S (counted from 1)
Keeps(o, j) ==
    CASE o = "filter" -> predicate(arg.a[j], j - 1)
      [] o = "exclude" -> ~predicate(arg.a[j], j - 1)
      [] o = "remove" -> arg.a[j] # arg.value
\* the elements it keeps of the first m
RECURSIVE Kept(_, _)
Kept(o, m) ==
    IF m = 0 THEN <<>>
    ELSE IF Keeps(o, m) THEN Append(Kept(o, m - 1), arg.a[m])
    ELSE Kept(o, m - 1)
\* how often v occurs in s
Count(s, v) == Cardinality({k \in 1..Len(s) : s[k] = v})

\* C15: filter yields, in order, exactly the elements for which p holds and
\* exclude exactly those for which it does not, so that the two outputs
\* partition S; remove leaves out every occurrence of the value.
C15_Partition ==
    Op \in {"filter", "exclude", "remove"} =>
        /\ IsPrefix(out, Kept(Op, N))
        /\ ret.state = "fulfilled" =>
              /\ ret.value = Kept(Op, N)
              /\ Op = "remove" =>
                    /\ Count(ret.value, arg.value) = 0
                    /\ \A v \in Values \ {arg.value} : Count(ret.value, v) = Count(arg.a, v)
              /\ (Op = "exclude" /\ run = 2 /\ hist[1].ret.state = "fulfilled") =>
                    /\ Len(hist[1].out) + Len(out) = N
                    /\ \A v \in Values :
                          Count(hist[1].out, v) + Count(out, v) = Count(arg.a, v)

\* filter and exclude have both completed on S with the same p, and each has
\* yielded an element
C15_Witness ==
    /\ Op = "exclude" /\ run = 2 /\ ret.state = "fulfilled"
    /\ hist[1].op = "filter" /\ hist[1].ret.state = "fulfilled"
    /\ hist[1].out # <<>> /\ out # <<>>


\* -------------------------------------- C16: takeWhile and takeUntil

\* p holds on the element at position j of S (counted from 1) and its
\* index, for the operations given p negated: does not hold
Holds(j) ==
    IF Op \in {"takeUntil", "dropUntil"}
    THEN ~predicate(arg.a[j], j - 1)
    ELSE predicate(arg.a[j], j - 1)
\* the position of the first element of S on which p fails, 0 when none
FirstFail ==
    IF \E j \in 1..N : ~Holds(j)
    THEN CHOOSE j \in 1..N : ~Holds(j) /\ \A k \in 1..(j - 1) : Holds(k)
    ELSE 0
\* the longest prefix of S on which p holds
LongestPrefix == IF FirstFail = 0 THEN arg.a ELSE SubSeq(arg.a, 1, FirstFail - 1)
\* p has been asked about the first element on which it fails, and answered
Failed == FirstFail >= 1 /\ Len(calls) >= FirstFail /\ arg.failCall # FirstFail

C16_Prefix ==
    Op \in {"takeWhile", "takeUntil"} =>
        /\ IsPrefix(out, LongestPrefix)
        /\ ret.state = "fulfilled" => ret.value = LongestPrefix
        /\ \A k \in 1..Len(calls) : calls[k] = <<arg.a[k], k - 1>>
C16_Stopped ==
    (Op \in {"takeWhile", "takeUntil"} /\ Failed /\ run' = run) =>
        /\ out' = out
        /\ calls' = calls
        /\ ait'.pulls = ait.pulls /\ ait'.srcPulls = ait.srcPulls

\* C16: takeWhile yields the longest prefix of S on which p(element, index)
\* holds; from the first element on which p fails on, nothing is yielded, p
\* is not invoked and S is not pulled, whatever the later elements are and
\* however often the consumer asks again. takeUntil is the same with p
\* negated.
C16_TakeWhile == [](C16_Prefix) /\ [][C16_Stopped]_vars

\* takeWhile has stopped at a failure before an element on which p holds,
\* and its consumer has asked again
C16_Witness ==
    /\ Op = "takeWhile" /\ ret.state = "fulfilled" /\ Failed /\ extra >= 1
    /\ \E j \in (FirstFail + 1)..N : Holds(j)
    /\ Len(calls) = FirstFail /\ ait.srcPulls = FirstFail

\* -------------------------------------- C17: dropWhile and dropUntil

\* S from the first element on which p fails
FromFirstFail == IF FirstFail = 0 THEN <<>> ELSE SubSeq(arg.a, FirstFail, N)

\* C17: dropWhile discards the longest prefix of S on which p(element,
\* index) holds and forwards every element from the first failing one on,
\* unchanged, also those on which p holds; p is invoked on no element after
\* the first failing one. dropUntil is the same with p negated.
C17_DropWhile ==
    Op \in {"dropWhile", "dropUntil"} =>
        /\ IsPrefix(out, FromFirstFail)
        /\ ret.state = "fulfilled" => ret.value = FromFirstFail
        /\ Len(calls) <= (IF FirstFail = 0 THEN N ELSE FirstFail)
        /\ \A k \in 1..Len(calls) : calls[k] = <<arg.a[k], k - 1>>

\* dropWhile has completed, having forwarded an element on which p holds
C17_Witness ==
    /\ Op = "dropWhile" /\ ret.state = "fulfilled" /\ FirstFail >= 2
    /\ \E j \in (FirstFail + 1)..N : Holds(j) /\ ret.value[j - FirstFail + 1] = arg.a[j]
    /\ Len(calls) = FirstFail


\* --------------------------------------------------------- C18: concat

\* the elements of the first k sequences of ss, one sequence after the other
RECURSIVE Flatten(_, _)
Flatten(ss, k) == IF k = 0 THEN <<>> ELSE Flatten(ss, k - 1) \o ss[k]
\* the inner sequence being iterated has signalled exhaustion: its last pull
\* answered done
InnerExhausted == bit.closed /\ bit.returns = 0 /\ bit.pos = Len(bit.items)

C18_Order ==
    Op = "concat" =>
        /\ IsPrefix(out, Flatten(arg.nested, Len(arg.nested)))
        /\ Len(out) <= Len(Flatten(arg.nested, ait.pos))
        /\ ait.pos >= 1 => IsPrefix(Flatten(arg.nested, ait.pos - 1), out)
        /\ ret.state = "fulfilled" => ret.value = Flatten(arg.nested, Len(arg.nested))
C18_OuterPull ==
    (Op = "concat" /\ run' = run /\ ait'.srcPulls > ait.srcPulls /\ ait.srcPulls >= 1) =>
        /\ InnerExhausted
        /\ out = Flatten(arg.nested, ait.pos)

\* C18: concat yields the elements of the inner sequences in outer order
\* and, within each, in inner order; the outer sequence is pulled for its
\* next inner sequence only after the current one has signalled exhaustion
\* (and all its elements have been yielded); empty inner sequences
\* contribute nothing.
C18_Concat == [](C18_Order) /\ [][C18_OuterPull]_vars

\* concat has completed on three inner sequences, the second empty and the
\* others not
C18_Witness ==
    /\ Op = "concat" /\ ret.state = "fulfilled" /\ Len(arg.nested) = 3
    /\ arg.nested[1] # <<>> /\ arg.nested[2] = <<>> /\ arg.nested[3] # <<>>
    /\ ret.value = arg.nested[1] \o arg.nested[3]


\* ------------------------------------------------ C19: prepend, append

\* the run is prepend(A)(B) or append(B)(A) for these A and B
FirstArg == IF plan[run].swap THEN arg.b ELSE arg.a
SecondArg == IF plan[run].swap THEN arg.a ELSE arg.b
SeqA == IF Op = "prepend" THEN FirstArg ELSE SecondArg
SeqB == IF Op = "prepend" THEN SecondArg ELSE FirstArg

\* C19: prepend(A)(B) and append(B)(A) both yield the elements of A followed
\* by those of B; when A or B is empty the result is the other one.
C19_PrependAppend ==
    Op \in {"prepend", "append"} =>
        /\ IsPrefix(out, SeqA \o SeqB)
        /\ ret.state = "fulfilled" =>
              /\ ret.value = SeqA \o SeqB
              /\ SeqA = <<>> => ret.value = SeqB
              /\ SeqB = <<>> => ret.value = SeqA
              /\ (Op = "append" /\ run = 2 /\ hist[1].op = "prepend") =>
                    ret.value = hist[1].ret.value

\* append(B)(A) has completed after prepend(A)(B) on different, non-empty A
\* and B
C19_Witness ==
    /\ Op = "append" /\ run = 2 /\ hist[1].op = "prepend" /\ ret.state = "fulfilled"
    /\ SeqA = arg.a /\ SeqB = arg.b
    /\ arg.a # <<>> /\ arg.b # <<>> /\ arg.a \o arg.b # arg.b \o arg.a
    /\ ret.value = arg.a \o arg.b


\* -------------------------------------------------- C20: push, unshift

\* C20: push yields every element of S in order and then v, last (so only
\* once S has signalled exhaustion); unshift yields v first and then every
\* element of S in order, and pulls S only after v has been yielded.
C20_PushUnshift ==
    /\ Op = "push" =>
          /\ IsPrefix(out, Append(arg.a, arg.value))
          /\ Len(out) = N + 1 => ait.closed /\ ait.srcPulls = N + 1
          /\ ret.state = "fulfilled" => ret.value = Append(arg.a, arg.value)
    /\ Op = "unshift" =>
          /\ IsPrefix(out, <<arg.value>> \o arg.a)
          /\ ait.pulls >= 1 => Len(out) >= 1 /\ out[1] = arg.value
          /\ ret.state = "fulfilled" => ret.value = <<arg.value>> \o arg.a

\* unshift has yielded v, S not pulled yet, on an S that starts with another
\* element
C20_Witness ==
    /\ Op = "unshift" /\ out = <<arg.value>> /\ ait.pulls = 0
    /\ N >= 2 /\ arg.a[1] # arg.value


\* ------------------------------------------------ C21: and, or, any, all

\* C21: and is true iff no element of S is falsy, or iff some element is
\* truthy; any is true iff some element satisfies p, all iff none fails p
\* (so on the empty S and and all are true, or and any false).
C21_Truth ==
    ret.state = "fulfilled" =>
        /\ Op = "and" => (ret.value <=> \A j \in 1..N : arg.a[j])
        /\ Op = "or" => (ret.value <=> \E j \in 1..N : arg.a[j])
        /\ Op = "any" => (ret.value <=> \E j \in 1..N : predicate(arg.a[j], j - 1))
        /\ Op = "all" => (ret.value <=> \A j \in 1..N : predicate(arg.a[j], j - 1))

\* all has answered false on an S whose first element satisfies p
C21_Witness ==
    /\ Op = "all" /\ ret.state = "fulfilled" /\ ret.value = FALSE
    /\ N >= 2 /\ predicate(arg.a[1], 0)


\* ----------------------------------------- C22: short-circuit consumers

\* the consumers that stop at a deciding element
ShortOps ==
    {"contains", "indexOf", "find", "findIndex", "any", "or", "all", "and",
     "index", "noneNull"}
\* the element at position j of S (counted from 1) decides the answer
Decides(j) ==
    CASE Op \in {"contains", "indexOf"} -> arg.a[j] = arg.value
      [] Op \in {"find", "findIndex", "any"} -> predicate(arg.a[j], j - 1)
      [] Op = "all" -> ~predicate(arg.a[j], j - 1)
      [] Op = "or" -> arg.a[j]
      [] Op = "and" -> ~arg.a[j]
      [] Op = "index" -> arg.count = Num(j - 1)
      [] Op = "noneNull" -> arg.a[j] = null
\* the position of the first deciding element, N + 1 when there is none: the
\* number of pulls that reach it, or that find S exhausted
DecidingPull ==
    IF \E j \in 1..N : Decides(j)
    THEN CHOOSE j \in 1..N : Decides(j) /\ \A k \in 1..(j - 1) : ~Decides(k)
    ELSE N + 1

\* C22: a short-circuiting consumer whose first deciding element is at
\* position p (counted from 0) issues exactly p + 1 pulls on S and invokes
\* its predicate on no later element; first, empty and notEmpty issue
\* exactly one pull.
C22_ShortCircuit ==
    /\ Op \in ShortOps =>
          /\ ait.srcPulls <= DecidingPull
          /\ Len(calls) <= Min(DecidingPull, N)
          /\ \A k \in 1..Len(calls) : calls[k] = <<arg.a[k], k - 1>>
          /\ ret.state = "fulfilled" => ait.srcPulls = DecidingPull
    /\ Op \in {"first", "empty", "notEmpty"} =>
          /\ ait.pulls <= 1
          /\ ret.state = "fulfilled" => ait.pulls = 1 /\ ait.srcPulls = 1

\* noneNull has answered on an S with a null element that is neither its
\* first nor its last
C22_Witness ==
    /\ Op = "noneNull" /\ ret.state = "fulfilled"
    /\ DecidingPull = 2 /\ N = 3 /\ ait.srcPulls = 2


\* ------------------------------------- C23: equal, prefixMatch in lockstep

LockstepOps == {"equal", "notEqual", "prefixMatch"}
\* the last pair compared was found unequal
ComparedUnequal ==
    /\ Len(calls) >= 1
    /\ ~elementsEqual(calls[Len(calls)][1], calls[Len(calls)][2])

C23_Order ==
    Op \in LockstepOps =>
        /\ bit.pulls <= ait.pulls /\ ait.pulls <= bit.pulls + 1
        /\ Len(calls) <= bit.pulls
        /\ \A k \in 1..Len(calls) : calls[k] = <<ait.items[k], bit.items[k]>>
        /\ ret # Pending => ait.pulls = bit.pulls
C23_Stops ==
    (Op \in LockstepOps /\ ComparedUnequal /\ run' = run) =>
        ait'.pulls = ait.pulls /\ bit'.pulls = bit.pulls

\* C23: equal and prefixMatch pull A then B, step by step: the k-th pull on
\* B follows the k-th pull on A, the k-th comparison follows both, A and B
\* have been pulled equally often when the operation returns, and no pull
\* follows a pair found unequal.
C23_Lockstep == [](C23_Order) /\ [][C23_Stops]_vars

\* equal has returned at an unequal second pair with elements left on both
\* sides
C23_Witness ==
    /\ Op = "equal" /\ ret.state = "fulfilled" /\ ComparedUnequal
    /\ Len(calls) = 2 /\ ait.pulls = 2 /\ bit.pulls = 2
    /\ Len(ait.items) = 3 /\ Len(bit.items) = 3


\* ------------------------------------------- C24: one operation at a time

\* what a step does: a pull on the first cursor, on the second, a callback
PullsA == ait'.pulls - ait.pulls
PullsB == IF bit'.items = bit.items /\ bit'.pulls >= bit.pulls
          THEN bit'.pulls - bit.pulls ELSE 0
Calls == Len(calls') - Len(calls)
\* the operations that call their callback for every element they pull
CallsEach ==
    {"map", "filter", "exclude", "takeWhile", "takeUntil", "scan", "fold", "find",
     "findIndex", "any", "all", "and", "or"}

C24_Step ==
    run' = run =>
        /\ PullsA + PullsB + Calls <= 1
        /\ PullsA >= 0 /\ Calls >= 0
        /\ (PullsA = 1 /\ Op \in CallsEach) => Len(calls) = ait.pos

\* C24: an operation has at most one pull or callback under way: a step of
\* it is one pull on one cursor or one callback, never two, and a pull
\* follows the callback for the element pulled before (the callbacks made
\* are as many as the elements pulled when the next pull is issued).
C24_OneInFlight == [][C24_Step]_vars

\* map is about to pull a third time, its two callbacks made
C24_Witness ==
    /\ Op = "map" /\ pc = "for" /\ gen = "executing"
    /\ ait.pulls = 2 /\ Len(calls) = 2 /\ N = 3


\* ------------------------------------------------ C25: lazy construction

\* C25: a lazy sequence that has been constructed and not pulled yet has
\* done no work: no pull on a source, no count or value awaited, no callback
\* invoked, nothing yielded.
C25_Lazy ==
    (Op \in LazyOps /\ gen = "suspendedStart") =>
        /\ ait.pulls = 0 /\ ait.srcPulls = 0 /\ ait.returns = 0
        /\ bit.pulls = 0 /\ bit.srcPulls = 0
        /\ loc = Locals
        /\ calls = <<>>
        /\ out = <<>>
        /\ pc = "start"

\* drop has been constructed on a non-empty S with a count above 0, after
\* take has run, and has not been pulled
C25_Witness ==
    /\ Op = "drop" /\ run = 2 /\ gen = "suspendedStart"
    /\ N >= 1 /\ arg.count = Num(1)


\* ------------------------------------------------- C26: callback index

IndexedOps ==
    {"map", "filter", "takeWhile", "dropWhile", "excludeFirst", "fold", "scan",
     "find", "findIndex"}
\* the element and the index an invocation was given (fold and scan give
\* the accumulator first)
CallElement(c) == c[Len(c) - 1]
CallIndex(c) == c[Len(c)]

\* C26: map, filter, takeWhile, dropWhile, excludeFirst, fold, scan, find
\* and findIndex invoke their callback at most once per element of S, in
\* order: the k-th invocation, counted from 0, is given the element at
\* position k and the index k (for filter too, whatever it has yielded).
C26_Index ==
    Op \in IndexedOps =>
        /\ Len(calls) <= N
        /\ \A k \in 1..Len(calls) :
              CallElement(calls[k]) = arg.a[k] /\ CallIndex(calls[k]) = k - 1

\* filter has called its predicate on the third element with index 2, having
\* yielded nothing
C26_Witness ==
    /\ Op = "filter" /\ Len(calls) = 3 /\ out = <<>>
    /\ calls[3] = <<arg.a[3], 2>>


\* ------------------------------------- C27: stopping before exhaustion

\* the operations that may stop before S is exhausted: those that iterate S
\* with for await, and those that drive a cursor by hand
ForAwaitStops ==
    {"first", "find", "findIndex", "contains", "indexOf", "index", "noneNull",
     "take", "takeWhile"}
ByHandStops == {"only", "empty", "equal", "prefixMatch"}
\* the operation has left its loop with S not exhausted: every pull it made
\* returned an element
LeftLoop == ret # Pending /\ ait.srcPulls >= 1 /\ ait.pos = ait.srcPulls

\* C27 as stated: an operation that stops before its source is exhausted
\* sends no close, return or dispose signal to the source.
C27_NoSignal ==
    Op \in ForAwaitStops \cup ByHandStops => ait.returns = 0 /\ bit.returns = 0

C27_Signals ==
    /\ Op \in ForAwaitStops =>
          ait.returns = (IF LeftLoop THEN 1 ELSE 0)
    /\ Op \in ByHandStops => ait.returns = 0 /\ bit.returns = 0
C27_NoPull ==
    (Op \in ForAwaitStops \cup ByHandStops /\ ret # Pending /\ run' = run) =>
        /\ ait'.pulls = ait.pulls /\ ait'.srcPulls = ait.srcPulls
        /\ bit'.pulls = bit.pulls /\ ait'.returns = ait.returns

\* C27 amended: once such an operation has stopped, no further pull is
\* issued on the source. only, empty, equal and prefixMatch, which drive a
\* cursor by hand, send the source no signal; first, find, findIndex,
\* contains, indexOf, index, noneNull, take and takeWhile, which iterate with
\* for await, send it exactly one return signal when they leave their loop
\* before the source is exhausted, and none otherwise.
C27_Stops == [](C27_Signals) /\ [][C27_NoPull]_vars

\* first has returned the first element of a longer S, and the return signal
\* has gone to S
C27_Witness ==
    /\ Op = "first" /\ ret.state = "fulfilled" /\ N >= 2
    /\ ait.srcPulls = 1 /\ ait.returns = 1


\* ------------------------------------- C28: take never exceeds its count

\* C28 as stated: take(S, c) never yields more than c elements, and for a
\* negative count it yields no element and issues no pull on S.
C28_TakeAtMost ==
    Op = "take" =>
        IF Less(arg.count, Num(0)) THEN out = <<>> /\ ait.pulls = 0
        ELSE ~Less(arg.count, Num(Len(out)))


\* ------------------------------------- C29: no pull after exhaustion

\* the operations that call next() on asyncIterator(iterable) themselves
ByHandOps ==
    {"tail", "initial", "drop", "dropWhile", "excludeFirst", "only", "fold1",
     "scan1", "maximum", "maximumBy", "equal", "prefixMatch"}

\* C29 as stated: an operation that drives a cursor by hand issues no pull on
\* it after it has signalled exhaustion (every pull on the cursor is then a
\* pull that reached the source), and on an empty source a single-source one
\* that has settled has issued exactly one pull.
C29_NoPullAfterDone ==
    Op \in ByHandOps =>
        /\ ait.pulls = ait.srcPulls
        /\ bit.pulls = bit.srcPulls
        /\ (Op \notin {"equal", "prefixMatch"} /\ N = 0 /\ ret # Pending) =>
               ait.pulls = 1


\* ------------------------------------- C30: the async-prefixed exports

\* C30 as stated: asyncExcludeFn(p)(S) produces the same sequence as
\* excludeFn(p)(S), which is the sequence exclude(S, p) produces.
C30_Alias ==
    (Op = "asyncExcludeFn" /\ ret # Pending) =>
        /\ hist[3].ret = hist[2].ret /\ hist[3].out = hist[2].out
        /\ ret = hist[3].ret /\ out = hist[3].out

====
